---- MODULE Spec2Model ----
(***************************************************************************)
(* Grade ingestion and academic aggregation of GPAlytics.                  *)
(*                                                                         *)
(* The model follows src/src/routers/grades/service.py (GradesService),    *)
(* src/src/routers/grades/api.py (process_result_card and the delete       *)
(* endpoints), src/src/routers/grades/ocr.py (OCRService) and              *)
(* src/src/routers/analytics/service.py (AnalyticsService).                *)
(*                                                                         *)
(* The persistent store is the pair (grades, uploads) of committed rows.   *)
(* Every request owns one SQLAlchemy session: rows it adds stay in the     *)
(* session (session[s]) until commit, are visible to the session's own     *)
(* queries (autoflush, the sessionmaker default) and to nobody else. A     *)
(* request yields control at each awaited store operation, so there is one *)
(* action per awaited operation of store_extracted_grades.                 *)
(*                                                                         *)
(* Strings are sequences of one-character strings so that strip(),         *)
(* upper(), isdigit() and int() are computed. Floats that only ever hold   *)
(* whole numbers (grade points, the weighted sum) are integers; a value    *)
(* rounded to 2 decimals is an integer number of hundredths. created_at is *)
(* not modelled: no code path reads it.                                    *)
(***************************************************************************)
EXTENDS Integers, Sequences, FiniteSets, TLC

(***************************************************************************)
(* Bounds                                                                  *)
(***************************************************************************)
\* longest subjects list of a payload in the sequential specification
MaxSubjects == 3
\* longest subjects list of a payload in the concurrent specification
MaxRaceSubjects == 2
\* number of GradeUpload ids that can be drawn, i.e. of ingestion runs
MaxUploads == 2

(***************************************************************************)
(* JSON values of the extraction payload: a tag, a string part, an integer *)
(* part.  "missing" stands for an absent key.                              *)
(***************************************************************************)
JStr(chars) == [t |-> "str", s |-> chars, n |-> 0]
JInt(k) == [t |-> "int", s |-> <<>>, n |-> k]
JNull == [t |-> "null", s |-> <<>>, n |-> 0]
JMissing == [t |-> "missing", s |-> <<>>, n |-> 0]
\* a finite float, in tenths; json.loads also yields float('inf') for the
\* literal Infinity
JFloat(tenths) == [t |-> "float", s |-> <<>>, n |-> tenths]
JInf == [t |-> "inf", s |-> <<>>, n |-> 0]
\* a list, by its length
JList(len) == [t |-> "list", s |-> <<>>, n |-> len]

\* dict.get(key, default): the default replaces an absent key only
Get(v, default) == IF v.t = "missing" THEN default ELSE v

\* Python truthiness of a JSON value
Truthy(v) ==
    CASE v.t = "str" -> Len(v.s) > 0
      [] v.t = "int" -> v.n # 0
      [] v.t = "float" -> v.n # 0
      [] v.t = "inf" -> TRUE
      [] v.t = "list" -> v.n > 0
      [] OTHER -> FALSE

(***************************************************************************)
(* str methods                                                             *)
(***************************************************************************)
Whitespace == {" ", "\t", "\n"}
Lower == <<"a","b","c","d","e","f","g","h","i","j","k","l","m",
           "n","o","p","q","r","s","t","u","v","w","x","y","z">>
UpperLetters == <<"A","B","C","D","E","F","G","H","I","J","K","L","M",
                  "N","O","P","Q","R","S","T","U","V","W","X","Y","Z">>
Digits == <<"0","1","2","3","4","5","6","7","8","9">>
\* characters such as SUPERSCRIPT TWO (written "^2" here, one character) for
\* which str.isdigit() is true and which int() does not accept
SuperscriptDigits == {"^1", "^2", "^3"}

RECURSIVE LStrip(_)
LStrip(chars) ==
    IF chars # <<>> /\ Head(chars) \in Whitespace THEN LStrip(Tail(chars)) ELSE chars

RECURSIVE RStrip(_)
RStrip(chars) ==
    IF chars # <<>> /\ chars[Len(chars)] \in Whitespace
    THEN RStrip(SubSeq(chars, 1, Len(chars) - 1))
    ELSE chars

\* str.strip()
Strip(chars) == RStrip(LStrip(chars))

UpperChar(c) ==
    IF \E i \in 1..26 : Lower[i] = c
    THEN UpperLetters[CHOOSE i \in 1..26 : Lower[i] = c]
    ELSE c

\* str.upper()
Upper(chars) == [i \in 1..Len(chars) |-> UpperChar(chars[i])]

IsDecimalChar(c) == \E i \in 1..10 : Digits[i] = c
IsDigitChar(c) == IsDecimalChar(c) \/ c \in SuperscriptDigits
DigitVal(c) == (CHOOSE i \in 1..10 : Digits[i] = c) - 1

\* str.isdigit(): non-empty and every character a digit
IsDigit(chars) == Len(chars) > 0 /\ \A i \in 1..Len(chars) : IsDigitChar(chars[i])
\* the digit strings int() accepts
IsDecimal(chars) == Len(chars) > 0 /\ \A i \in 1..Len(chars) : IsDecimalChar(chars[i])

RECURSIVE DigitsVal(_)
DigitsVal(chars) ==
    IF chars = <<>> THEN 0
    ELSE 10 * DigitsVal(SubSeq(chars, 1, Len(chars) - 1)) + DigitVal(chars[Len(chars)])

\* str(int) for the purpose of isdigit(): true exactly for n >= 0
IntStrIsDigit(k) == k >= 0

\* int(str): surrounding whitespace and one sign are accepted, anything
\* else raises ValueError
IntStrBody(chars) ==
    LET st == Strip(chars)
    IN  IF st # <<>> /\ Head(st) \in {"+", "-"} THEN Tail(st) ELSE st
IntStrOk(chars) == IsDecimal(IntStrBody(chars))
IntStrVal(chars) ==
    LET st == Strip(chars)
    IN  IF st # <<>> /\ Head(st) = "-" THEN 0 - DigitsVal(IntStrBody(chars))
        ELSE DigitsVal(IntStrBody(chars))

(***************************************************************************)
(* Program constants                                                       *)
(***************************************************************************)
MAX_FILE_SIZE == 10485760
ALLOWED_FILE_TYPES == {"image/png", "image/jpeg", "image/jpg"}
DefaultCredits == 3
DefaultSemester == 1

\* GRADE_POINTS_MAP
GRADE_POINTS_MAP(g) ==
    CASE g = <<"O">> -> 10
      [] g = <<"A", "+">> -> 9
      [] g = <<"A">> -> 8
      [] g = <<"B", "+">> -> 7
      [] g = <<"B">> -> 6
      [] g = <<"C">> -> 5
      [] g = <<"D">> -> 4
      [] g = <<"F">> -> 0
      [] g = <<"U">> -> 0
      [] g = <<"A", "B">> -> 0
      [] OTHER -> 0

\* GradesService.get_grade_points
get_grade_points(grade) == GRADE_POINTS_MAP(Upper(grade))

\* round(num / den, 2) in hundredths, den > 0.  Python rounds the double
\* nearest to num/den half-to-even; a tie num/den = k + 0.005 is a dyadic
\* rational (exact as a double) whenever den < 40.
Round2(num, den) ==
    LET q == (100 * num) \div den
        r == (100 * num) % den
    IN  IF 2 * r < den THEN q
        ELSE IF 2 * r > den THEN q + 1
        ELSE IF q % 2 = 0 THEN q ELSE q + 1

(***************************************************************************)
(* Entities                                                                *)
(***************************************************************************)
Slots == {"r1", "r2"}

\* GradeUpload row.  The uuid4 id is the number of the draw.
GradeUpload(id, user_id, filename, status) ==
    [id |-> id, user_id |-> user_id, filename |-> filename, status |-> status]

\* Grade row.  The uuid4 id is the pair (upload of the run, number of the
\* row among those the run adds), which no two rows share.
Grade(id, user_id, course_name, course_code, credits, grade, sem, gpa_points) ==
    [id |-> id, user_id |-> user_id, course_name |-> course_name,
     course_code |-> course_code, credits |-> credits, grade |-> grade,
     semester |-> sem, gpa_points |-> gpa_points]

\* the dict appended to stored_grades
StoredGrade(g) ==
    [course_code |-> g.course_code, course_name |-> g.course_name,
     credits |-> g.credits, grade |-> g.grade, grade_points |-> g.gpa_points]

NoUpload == GradeUpload(0, "", "", "")

\* extracted_data: the top-level keys present, student_info (a dict holding
\* semester, or null), the subjects list and the sgpa (in hundredths) that
\* semester_summary carries
ExtractedData(keys, info_t, sem, subjects) ==
    [keys |-> keys, student_info |-> [t |-> info_t, semester |-> sem],
     subjects |-> subjects, semester_summary |-> JMissing]
AllKeys == {"student_info", "subjects", "semester_summary"}
NoData == ExtractedData({}, "dict", JMissing, <<>>)

\* a subject of the payload; grade_points is the figure the AI gives
Subject(code, name, credits, grade) ==
    [subject_code |-> code, subject_name |-> name, credits |-> credits, grade |-> grade,
     grade_points |-> JMissing]

(***************************************************************************)
(* State.  A slot serves one request at a time, an ingestion or a delete;  *)
(* taking the next request discards the locals and the response of the     *)
(* previous one.                                                           *)
(***************************************************************************)
VARIABLES
    grades,        \* committed Grade rows
    uploads,       \* committed GradeUpload rows
    next_id,       \* number of the next uuid4 drawn for a GradeUpload
    run,           \* per request: the locals of store_extracted_grades
    result,        \* per request: what store_extracted_grades returned or raised
    del_result,    \* per request: what the delete operation returned or raised
    faulted,       \* history: the store operations that failed in the run
    base,          \* history: the committed store when the run started
    intact,        \* history: no delete has removed a row since the run started
    api,           \* the locals and the response of process_result_card
    ana            \* what the analytics request served last returned or raised

store == <<grades, uploads>>
vars == <<grades, uploads, next_id, run, result, del_result, faulted, base, intact, api, ana>>

IdleRun ==
    [pc |-> "idle", user_id |-> "", extracted_data |-> NoData,
     upload_record |-> NoUpload, semester |-> 0, idx |-> 0,
     added |-> <<>>, stored_grades |-> <<>>,
     total_credits |-> 0, total_grade_points |-> 0]

NoResult ==
    [kind |-> "none", status |-> "", upload_id |-> 0, subjects_stored |-> 0,
     total_credits |-> 0, calculated_sgpa |-> 0, duplicate_count |-> 0,
     error |-> ""]

\* the delete request of a slot: the operation and its selector, the status
\* and the counts of the dict the service returned ("error" when it raised,
\* "counted" while delete_all_user_data is between its two reads) and the
\* HTTP status the endpoint answers
NoDelete ==
    [op |-> "none", user_id |-> "", semester |-> 0, upload_id |-> 0, status |-> "",
     status_code |-> 0, deleted_grades |-> 0, deleted_uploads |-> 0]

NoFile == [content_type |-> "", size |-> 0]
\* detail is the fixed text of the answer; message is the text of the error
\* message the detail interpolates and inner the text of the exception that
\* message interpolates in turn, each "" when there is none
NoResponse == [status_code |-> 0, status |-> "", detail |-> "", message |-> "", inner |-> ""]
\* db, the session get_db_session gives the handler: where the generator
\* stands ("none" before it is called, "yielded" while the handler runs,
\* "exited" once it has run to its end) and the commit, rollback and close
\* calls made on the session, in order
NoSession == [pc |-> "none", calls |-> <<>>]
\* caught is the class of the exception the handler caught, "" when none,
\* and error its kind; response_text is the text of the AI response and
\* cleaned what clean_ai_response makes of it, where they are followed; at_start is history: the store and next_id when the request came in
IdleApi ==
    [pc |-> "idle", file |-> NoFile, user_id |-> "", stages |-> <<>>,
     extracted_data |-> NoData, response |-> NoResponse, caught |-> "",
     at_start |-> [grades |-> {}, uploads |-> {}, next_id |-> 1],
     db |-> NoSession, error |-> "", response_text |-> <<>>, cleaned |-> <<>>]

\* cgpa_data is the dict calculate_user_cgpa returned and semester_data what
\* get_semester_summary returned, present being false for None
NoCgpaData ==
    [user_id |-> "", total_subjects |-> 0, total_credits |-> 0, cgpa |-> 0,
     semesters_completed |-> 0, semester_breakdown |-> <<>>]
NoSemesterData ==
    [present |-> FALSE, user_id |-> "", semester |-> 0, subjects_count |-> 0,
     total_credits |-> 0, sgpa |-> 0, subjects |-> <<>>]
\* query_failed is history: the query of the request raised
NoAnalytics ==
    [op |-> "none", user_id |-> "", semester |-> 0, kind |-> "none", query_failed |-> FALSE,
     cgpa_data |-> NoCgpaData, semester_data |-> NoSemesterData]

\* history of a request: the committed store when it came in; for a run,
\* repeat (it ingests again what the run before it committed) and removed
\* (the Grade rows that the delete served just before it removed); for a
\* delete, removed is the Grade rows it removed
NoBase == [grades |-> {}, uploads |-> {}, repeat |-> FALSE, removed |-> {}]

\* the empty store and no request served yet
InitStore ==
    /\ grades = {}
    /\ uploads = {}
    /\ next_id = 1
    /\ run = [s \in Slots |-> IdleRun]
    /\ result = [s \in Slots |-> NoResult]
    /\ del_result = [s \in Slots |-> NoDelete]
    /\ faulted = [s \in Slots |-> {}]
    /\ base = [s \in Slots |-> NoBase]
    /\ intact = [s \in Slots |-> FALSE]
    /\ ana = NoAnalytics

Init ==
    /\ InitStore
    /\ api = IdleApi

(***************************************************************************)
(* store_extracted_grades: normalisation of the payload                    *)
(***************************************************************************)
\* line 32: str(semester).isdigit() holds and int(semester) raises ValueError
SemesterRaises(student_info) ==
    LET sem == Get(student_info.semester, JNull)
    IN  Truthy(sem) /\ sem.t = "str" /\ IsDigit(sem.s) /\ ~IsDecimal(sem.s)

\* lines 29-36: student_info.get("semester") resolved to 1..12.  str() of a
\* float, of a list or of a negative int is not a digit string.
ResolveSemester(student_info) ==
    LET sem == Get(student_info.semester, JNull)
        parsed ==
            IF Truthy(sem)
            THEN CASE sem.t = "str" ->
                        (IF IsDigit(sem.s) THEN DigitsVal(sem.s) ELSE DefaultSemester)
                   [] sem.t = "int" ->
                        (IF IntStrIsDigit(sem.n) THEN sem.n ELSE DefaultSemester)
                   [] OTHER -> DefaultSemester
            ELSE DefaultSemester
    IN  IF parsed < 1 \/ parsed > 12 THEN DefaultSemester ELSE parsed

\* line 63: int() of a list raises TypeError and int() of an infinite float
\* OverflowError; neither is the ValueError that line 67 catches
CreditsRaises(subject_data) ==
    LET credits == Get(subject_data.credits, JInt(0))
    IN  Truthy(credits) /\ credits.t \in {"list", "inf"}

\* lines 49-53: .strip() on a value that is not a str raises AttributeError,
\* which the per-subject handler (lines 107-109) turns into a skip
SubjectRaises(subject_data) ==
    LET code == Get(subject_data.subject_code, JStr(<<>>))
        name == Get(subject_data.subject_name, JStr(<<>>))
        grade_raw == Get(subject_data.grade, JStr(<<"F">>))
    IN  \/ code.t # "str"
        \/ name.t # "str"
        \/ (Truthy(grade_raw) /\ grade_raw.t # "str")

\* line 49
CourseCode(subject_data) == Strip(Get(subject_data.subject_code, JStr(<<>>)).s)
\* line 50
CourseName(subject_data) == Strip(Get(subject_data.subject_name, JStr(<<>>)).s)
\* lines 52-53
NormGrade(subject_data) ==
    LET grade_raw == Get(subject_data.grade, JStr(<<"F">>))
    IN  IF Truthy(grade_raw) THEN Upper(Strip(grade_raw.s)) ELSE <<"F">>

\* credits converted and defaulted on a conversion error only, the range
\* check of line 64 left out
NormCreditsAnyRange(subject_data) ==
    LET credits == Get(subject_data.credits, JInt(0))
    IN  IF ~Truthy(credits) THEN 0
        ELSE IF credits.t = "str"
             THEN (IF IntStrOk(credits.s) THEN IntStrVal(credits.s) ELSE DefaultCredits)
        ELSE IF credits.t = "float"
             THEN (IF credits.n >= 0 THEN credits.n \div 10 ELSE 0 - ((0 - credits.n) \div 10))
        ELSE credits.n

\* lines 51 and 62-69
NormCredits(subject_data) ==
    LET credits == Get(subject_data.credits, JInt(0))
        value_error == Truthy(credits) /\ credits.t = "str" /\ ~IntStrOk(credits.s)
        n == IF ~Truthy(credits) THEN 0
             ELSE IF credits.t = "str" THEN IntStrVal(credits.s)
             ELSE IF credits.t = "float"           \* int() truncates towards zero
                  THEN (IF credits.n >= 0 THEN credits.n \div 10
                        ELSE 0 - ((0 - credits.n) \div 10))
             ELSE credits.n
    IN  IF value_error THEN DefaultCredits
        ELSE IF n < 1 \/ n > 6 THEN DefaultCredits
        ELSE n

\* a check that lets a subject without code or name through
SubjectSkippedGradeOnly(subject_data) ==
    \/ SubjectRaises(subject_data)
    \/ CreditsRaises(subject_data)
    \/ NormGrade(subject_data) = <<>>
    \/ NormGrade(subject_data) = <<"N", "O", "N", "E">>

\* lines 55-60 and 107-109: the subject is dropped before the store is asked
SubjectSkipped(subject_data) ==
    \/ SubjectRaises(subject_data)
    \/ CreditsRaises(subject_data)
    \/ CourseCode(subject_data) = <<>>
    \/ CourseName(subject_data) = <<>>
    \/ NormGrade(subject_data) = <<>>
    \/ NormGrade(subject_data) = <<"N", "O", "N", "E">>

(***************************************************************************)
(* The session of a request                                                *)
(***************************************************************************)
Range(seq) == {seq[i] : i \in 1..Len(seq)}

\* a query that does not see the rows its own session has added
VisibleCommittedOnly(s) == grades

\* rows a query of request s reads: the committed rows and, by autoflush,
\* the rows the request's own session has added
Visible(s) == grades \cup Range(run[s].added)

\* a duplicate check that compares the course code with the wrong column
ExistingGradeByName(s, course_code) ==
    {g \in Visible(s) : /\ g.user_id = run[s].user_id
                        /\ g.course_name = course_code
                        /\ g.semester = run[s].semester}

\* a duplicate check that also takes a completed GradeUpload of the user for
\* a stored grade
ExistingGradeOrUpload(s, course_code) ==
    {g \in Visible(s) : /\ g.user_id = run[s].user_id
                        /\ g.course_code = course_code
                        /\ g.semester = run[s].semester}
    \cup {u \in uploads : u.user_id = run[s].user_id /\ u.status = "completed"}

\* lines 73-77: the duplicate-check query
ExistingGrade(s, course_code) ==
    {g \in Visible(s) : /\ g.user_id = run[s].user_id
                        /\ g.course_code = course_code
                        /\ g.semester = run[s].semester}

SameKey(g, h) ==
    g.user_id = h.user_id /\ g.course_code = h.course_code /\ g.semester = h.semester

\* a commit that leaves the row added last in the session
CommitGradesDropLast(s) ==
    grades \cup Range(SubSeq(run[s].added, 1, Len(run[s].added) - 1))

\* a commit that ignores a row whose key the store already holds
CommitGradesIgnoreDuplicate(s) ==
    grades \cup {g \in Range(run[s].added) : \A h \in grades : ~SameKey(g, h)}

\* a commit after a duplicate check that updates the stored row of a subject
\* instead of skipping the subject
CommitGradesUpsert(s) ==
    LET subjects == run[s].extracted_data.subjects
        Hits(g) == {i \in 1..Len(subjects) :
                       /\ ~SubjectSkipped(subjects[i])
                       /\ g.user_id = run[s].user_id
                       /\ g.semester = run[s].semester
                       /\ g.course_code = CourseCode(subjects[i])}
        Updated(g) ==
            IF Hits(g) = {} THEN g
            ELSE LET subject_data == subjects[CHOOSE i \in Hits(g) : \A j \in Hits(g) : i <= j]
                 IN  [g EXCEPT !.course_name = CourseName(subject_data),
                               !.credits = NormCredits(subject_data),
                               !.grade = NormGrade(subject_data),
                               !.gpa_points = get_grade_points(NormGrade(subject_data))]
    IN  {Updated(g) : g \in grades} \cup Range(run[s].added)

\* db.commit(): the rows the store holds after the session of s commits
CommitGrades(s) == grades \cup Range(run[s].added)
CommitUploads(s, upload_record) == uploads \cup {upload_record}

\* kinds of failure of a store operation, by the words of its message
DbFaults == {"unique constraint", "foreign key", "check constraint", "other"}

\* lines 145-167: the DatabaseError raised for an exception
DatabaseErrorFor(fault) ==
    CASE fault = "unique constraint" -> "duplicate_data"
      [] fault = "foreign key" -> "invalid_user_reference"
      [] fault = "check constraint" -> "invalid_grade_data"
      [] OTHER -> "storage_failed"

Raised(error) == [NoResult EXCEPT !.kind = "raised", !.error = error]

Filename == "card.png"

(***************************************************************************)
(* store_extracted_grades                                                  *)
(***************************************************************************)
\* lines 24-41: create and flush the GradeUpload, resolve the semester,
\* reject an empty subjects list.  fault is the outcome of db.flush().
\* History: base.repeat records that the request ingests again, for the same
\* user, the payload of the fault-free run it has just committed, the store
\* being as that run left it.
StartRun(s, user_id, extracted_data, fault) ==
    LET upload_record == GradeUpload(next_id, user_id, Filename, "processing")
        student_info == IF "student_info" \in extracted_data.keys
                        THEN extracted_data.student_info
                        ELSE [t |-> "dict", semester |-> JMissing]
        info_null == "student_info" \in extracted_data.keys /\ student_info.t = "null"
        subjects == extracted_data.subjects
        started == [IdleRun EXCEPT !.user_id = user_id,
                                   !.extracted_data = extracted_data,
                                   !.upload_record = upload_record]
        failed == [started EXCEPT !.pc = "done"]
    IN  /\ run[s].pc \in {"idle", "done"}
        /\ next_id <= MaxUploads
        /\ next_id' = next_id + 1
        /\ base' = [base EXCEPT ![s] =
                [grades |-> grades, uploads |-> uploads,
                 repeat |-> /\ run[s].pc = "done"
                            /\ result[s].kind = "returned"
                            /\ faulted[s] = {}
                            /\ run[s].user_id = user_id
                            /\ run[s].extracted_data = extracted_data
                            /\ grades = base[s].grades \cup Range(run[s].added),
                 removed |-> IF del_result[s].status = "success"
                             THEN base[s].removed ELSE {}]]
        /\ intact' = [intact EXCEPT ![s] = TRUE]
        /\ IF fault # "ok"                        \* db.flush() raises
           THEN /\ run' = [run EXCEPT ![s] = failed]
                /\ result' = [result EXCEPT ![s] = Raised(DatabaseErrorFor(fault))]
                /\ faulted' = [faulted EXCEPT ![s] = {"flush"}]
           ELSE /\ faulted' = [faulted EXCEPT ![s] = {}]
                /\ IF info_null \/ SemesterRaises(student_info)
                   \* None.get raises AttributeError, int() raises ValueError
                   THEN /\ run' = [run EXCEPT ![s] = failed]
                        /\ result' = [result EXCEPT ![s] = Raised(DatabaseErrorFor("other"))]
                   ELSE IF subjects = <<>>
                   THEN /\ run' = [run EXCEPT ![s] = failed]
                        /\ result' = [result EXCEPT ![s] = Raised("no_subjects")]
                   ELSE /\ run' = [run EXCEPT ![s] =
                               [started EXCEPT !.pc = "loop", !.idx = 1,
                                               !.semester = ResolveSemester(student_info)]]
                        /\ result' = [result EXCEPT ![s] = NoResult]
        /\ del_result' = [del_result EXCEPT ![s] = NoDelete]
        /\ UNCHANGED store

\* grade points taken from the payload when it carries them
GradePointsFromPayload(subject_data, grade) ==
    IF subject_data.grade_points.t = "int" THEN subject_data.grade_points.n
    ELSE get_grade_points(grade)

\* line 71: the grade points of a subject come from the table alone
GradePoints(subject_data, grade) == get_grade_points(grade)

\* a sum of grade points that forgets the credits
UnweightedPoints(grade_points, credits) == grade_points

\* line 106: the term a subject adds to total_grade_points
WeightedPoints(grade_points, credits) == grade_points * credits

\* lines 47-109: one iteration of the loop over subjects.  query_fails is
\* the outcome of the duplicate-check query, when it is reached.
ProcessSubject(s, query_fails) ==
    LET r == run[s]
        subject_data == r.extracted_data.subjects[r.idx]
        course_code == CourseCode(subject_data)
        credits == NormCredits(subject_data)
        grade == NormGrade(subject_data)
        grade_points == GradePoints(subject_data, grade)
        grade_record == Grade(<<r.upload_record.id, Len(r.added) + 1>>, r.user_id,
                              CourseName(subject_data), course_code, credits,
                              grade, r.semester, grade_points)
        skipped == [r EXCEPT !.idx = r.idx + 1]
        staged == [r EXCEPT !.idx = r.idx + 1,
                            !.added = Append(r.added, grade_record),
                            !.stored_grades = Append(r.stored_grades, StoredGrade(grade_record)),
                            !.total_credits = r.total_credits + credits,
                            !.total_grade_points =
                                r.total_grade_points + WeightedPoints(grade_points, credits)]
    IN  /\ r.pc = "loop"
        /\ r.idx <= Len(r.extracted_data.subjects)
        /\ \/ /\ SubjectSkipped(subject_data)
              /\ run' = [run EXCEPT ![s] = skipped]
              /\ UNCHANGED faulted
           \/ /\ ~SubjectSkipped(subject_data)  \* the query raises: caught at 107
              /\ query_fails
              /\ run' = [run EXCEPT ![s] = skipped]
              /\ faulted' = [faulted EXCEPT ![s] = @ \cup {"query"}]
           \/ /\ ~SubjectSkipped(subject_data)
              /\ ~query_fails
              \* one row is a duplicate; for several rows scalar_one_or_none
              \* raises MultipleResultsFound, caught at 107: a skip either way
              /\ run' = [run EXCEPT ![s] =
                     IF ExistingGrade(s, course_code) # {} THEN skipped ELSE staged]
              /\ UNCHANGED faulted
        /\ UNCHANGED <<store, next_id, result, del_result, base, intact>>

\* a return that counts the staged subjects as the duplicates
ReturnedStagedCount(r, status, sgpa) ==
    IF status = "all_duplicates"
    THEN [NoResult EXCEPT !.kind = "returned", !.status = "all_duplicates",
                          !.upload_id = r.upload_record.id,
                          !.duplicate_count = Len(r.stored_grades)]
    ELSE [NoResult EXCEPT !.kind = "returned",
                          !.upload_id = r.upload_record.id,
                          !.subjects_stored = Len(r.stored_grades),
                          !.total_credits = r.total_credits,
                          !.calculated_sgpa = sgpa]

\* lines 117-127 and 133-141: the dict returned
Returned(r, status, sgpa) ==
    IF status = "all_duplicates"
    THEN [NoResult EXCEPT !.kind = "returned", !.status = "all_duplicates",
                          !.upload_id = r.upload_record.id,
                          !.duplicate_count = Len(r.extracted_data.subjects)]
    ELSE [NoResult EXCEPT !.kind = "returned",
                          !.upload_id = r.upload_record.id,
                          !.subjects_stored = Len(r.stored_grades),
                          !.total_credits = r.total_credits,
                          !.calculated_sgpa = sgpa]

\* lines 111-167: finalise the GradeUpload and commit, or roll back and
\* raise.  fault is the outcome of db.commit().
\* a finalisation that sets the status only when a grade was stored
FinalStatusStoredOnly(stored_grades, status) ==
    IF stored_grades = <<>> THEN status ELSE "completed"

\* lines 111-126: the status the GradeUpload is given before the commit
FinalStatus(stored_grades, status) ==
    IF stored_grades = <<>> THEN "all_duplicates" ELSE "completed"

Finish(s, fault) ==
    LET r == run[s]
        status == FinalStatus(r.stored_grades, r.upload_record.status)
        upload_record == [r.upload_record EXCEPT !.status = status]
        sgpa == IF r.total_credits > 0
                THEN Round2(r.total_grade_points, r.total_credits)
                ELSE 0
        done == [r EXCEPT !.pc = "done", !.upload_record = upload_record]
    IN  /\ r.pc = "loop"
        /\ r.idx > Len(r.extracted_data.subjects)
        /\ run' = [run EXCEPT ![s] = done]
        /\ IF fault = "ok"
           THEN /\ grades' = CommitGrades(s)
                /\ uploads' = CommitUploads(s, upload_record)
                /\ result' = [result EXCEPT ![s] = Returned(r, status, sgpa)]
                /\ UNCHANGED faulted
           ELSE /\ UNCHANGED store              \* rollback
                /\ result' = [result EXCEPT ![s] = Raised(DatabaseErrorFor(fault))]
                /\ faulted' = [faulted EXCEPT ![s] = @ \cup {"commit"}]
        /\ UNCHANGED <<next_id, del_result, base, intact>>

(***************************************************************************)
(* Delete operations.  Each runs in its own session and commits once.      *)
(***************************************************************************)
\* api.py lines 293-307, 319-333 and 343-355: the HTTP status answered
DeleteStatusCode(status) ==
    CASE status = "success" -> 200
      [] status \in {"no_data", "not_found"} -> 404
      [] status = "error" -> 500
      [] OTHER -> 0

DeleteSelector(user_id, semester, upload_id) ==
    [user_id |-> user_id, semester |-> semester, upload_id |-> upload_id]

Deleted(op, selector, status, deleted_grades, deleted_uploads) ==
    [op |-> op, user_id |-> selector.user_id, semester |-> selector.semester,
     upload_id |-> selector.upload_id, status |-> status,
     status_code |-> DeleteStatusCode(status),
     deleted_grades |-> deleted_grades, deleted_uploads |-> deleted_uploads]

\* slot s takes a delete request and answers it with response
AnswerDelete(s, response, removed) ==
    /\ run[s].pc \in {"idle", "done"}
    /\ run' = [run EXCEPT ![s] = IdleRun]
    /\ result' = [result EXCEPT ![s] = NoResult]
    /\ del_result' = [del_result EXCEPT ![s] = response]
    /\ faulted' = [faulted EXCEPT ![s] = {}]
    /\ base' = [base EXCEPT ![s] = [NoBase EXCEPT !.removed = grades \ grades']]
    /\ intact' = IF removed THEN [t \in Slots |-> FALSE] ELSE [intact EXCEPT ![s] = FALSE]
    /\ UNCHANGED next_id

\* delete_all_user_data when no other request commits between its reads;
\* fails is the failure of one of its store operations
DeleteAll(s, user_id, fails) ==
    LET gs == {g \in grades : g.user_id = user_id}
        us == {u \in uploads : u.user_id = user_id}
        sel == DeleteSelector(user_id, 0, 0)
    IN  /\ del_result[s].status # "counted"
        /\ IF fails
           THEN /\ UNCHANGED store                  \* rollback, DatabaseError
                /\ AnswerDelete(s, Deleted("reset", sel, "error", 0, 0), FALSE)
           ELSE IF gs = {} /\ us = {}
           THEN /\ UNCHANGED store
                /\ AnswerDelete(s, Deleted("reset", sel, "no_data", 0, 0), FALSE)
           ELSE /\ grades' = grades \ gs
                /\ uploads' = uploads \ us
                /\ AnswerDelete(s, Deleted("reset", sel, "success",
                                           Cardinality(gs), Cardinality(us)), TRUE)

\* lines 189-201 of delete_all_user_data: the two reads that count the rows
DeleteAllCount(s, user_id, fails) ==
    LET gs == {g \in grades : g.user_id = user_id}
        us == {u \in uploads : u.user_id = user_id}
        sel == DeleteSelector(user_id, 0, 0)
    IN  /\ del_result[s].status # "counted"
        /\ UNCHANGED store
        /\ IF fails
           THEN AnswerDelete(s, Deleted("reset", sel, "error", 0, 0), FALSE)
           ELSE IF gs = {} /\ us = {}
           THEN AnswerDelete(s, Deleted("reset", sel, "no_data", 0, 0), FALSE)
           ELSE AnswerDelete(s, Deleted("reset", sel, "counted",
                                        Cardinality(gs), Cardinality(us)), FALSE)

\* lines 202-215 of delete_all_user_data: the rows are read again, deleted
\* and the deletion committed; the counts returned are those of the first
\* reads
DeleteAllRemove(s, fails) ==
    LET counted == del_result[s]
        sel == DeleteSelector(counted.user_id, 0, 0)
        gs == {g \in grades : g.user_id = counted.user_id}
        us == {u \in uploads : u.user_id = counted.user_id}
    IN  /\ counted.status = "counted"
        /\ IF fails
           THEN /\ UNCHANGED store
                /\ AnswerDelete(s, Deleted("reset", sel, "error", 0, 0), FALSE)
           ELSE /\ grades' = grades \ gs
                /\ uploads' = uploads \ us
                /\ AnswerDelete(s, Deleted("reset", sel, "success", counted.deleted_grades,
                                           counted.deleted_uploads), TRUE)

\* a delete by semester whose query does not filter on the user
DeleteSemesterOfAnyUser(s, user_id, sem, fails) ==
    LET gs == {g \in grades : g.semester = sem}
        sel == DeleteSelector(user_id, sem, 0)
    IN  /\ del_result[s].status # "counted"
        /\ IF fails
           THEN /\ UNCHANGED store
                /\ AnswerDelete(s, Deleted("semester", sel, "error", 0, 0), FALSE)
           ELSE IF gs = {}
           THEN /\ UNCHANGED store
                /\ AnswerDelete(s, Deleted("semester", sel, "no_data", 0, 0), FALSE)
           ELSE /\ grades' = grades \ gs
                /\ UNCHANGED uploads
                /\ AnswerDelete(s, Deleted("semester", sel, "success", Cardinality(gs), 0), TRUE)

\* delete_semester_data
DeleteSemester(s, user_id, sem, fails) ==
    LET gs == {g \in grades : g.user_id = user_id /\ g.semester = sem}
        sel == DeleteSelector(user_id, sem, 0)
    IN  /\ del_result[s].status # "counted"
        /\ IF fails
           THEN /\ UNCHANGED store
                /\ AnswerDelete(s, Deleted("semester", sel, "error", 0, 0), FALSE)
           ELSE IF gs = {}
           THEN /\ UNCHANGED store
                /\ AnswerDelete(s, Deleted("semester", sel, "no_data", 0, 0), FALSE)
           ELSE /\ grades' = grades \ gs
                /\ UNCHANGED uploads
                /\ AnswerDelete(s, Deleted("semester", sel, "success", Cardinality(gs), 0), TRUE)

\* delete_upload_data
DeleteUpload(s, user_id, upload_id, fails) ==
    LET us == {u \in uploads : u.id = upload_id /\ u.user_id = user_id}
        sel == DeleteSelector(user_id, 0, upload_id)
    IN  /\ del_result[s].status # "counted"
        /\ IF fails
           THEN /\ UNCHANGED store
                /\ AnswerDelete(s, Deleted("upload", sel, "error", 0, 0), FALSE)
           ELSE IF us = {}
           THEN /\ UNCHANGED store
                /\ AnswerDelete(s, Deleted("upload", sel, "not_found", 0, 0), FALSE)
           ELSE /\ uploads' = uploads \ us
                /\ UNCHANGED grades
                /\ AnswerDelete(s, Deleted("upload", sel, "success", 0, 1), TRUE)

(***************************************************************************)
(* OCRService: checks of the upload and of the extraction                  *)
(***************************************************************************)
\* ocr.py lines 38-44
validate_file_type(content_type) == content_type \in ALLOWED_FILE_TYPES
validate_file_size(file_size) == file_size <= MAX_FILE_SIZE

\* api.py lines 20-30: the detail of the HTTPException(400) raised, "" when
\* the file passes.  A content type of "" is the absent one; a size of 0 is
\* the absent or empty one, which line 29 does not check.
validate_upload_file(file) ==
    IF file.content_type = "" THEN "File content type is missing"
    ELSE IF ~validate_file_type(file.content_type) THEN "Invalid file type"
    ELSE IF file.size # 0 /\ ~validate_file_size(file.size) THEN "File too large"
    ELSE ""

\* ocr.py lines 142-160
validate_extracted_grades(data) ==
    /\ AllKeys \subseteq data.keys
    /\ Len(data.subjects) > 0
    /\ \A i \in 1..Len(data.subjects) :
          LET subject == data.subjects[i]
          IN  /\ subject.subject_code.t # "missing"
              /\ subject.subject_name.t # "missing"
              /\ subject.credits.t # "missing"
              /\ subject.grade.t # "missing"
              /\ subject.credits.t \in {"int", "float", "inf"}

\* ocr.py lines 94-140: the ways the extraction ends.  "text" is a response
\* that parses as JSON, "bad_json" one that does not; the others are the
\* OCRProcessingError raised.
ExtractionOutcomes ==
    {"text", "bad_json", "unavailable", "no_key", "rate_limit", "authentication",
     "network", "unexpected"}

(***************************************************************************)
(* OCRService.clean_ai_response.  A text is a sequence of tokens: the fence *)
(* of three backticks, the word json, a brace, a blank, a preamble phrase,  *)
(* or "x" for any other character.                                          *)
(***************************************************************************)
\* the token of the three backticks that open or close a code block
Fence == "fence"
prefixes_to_remove ==
    <<"Here's the extracted data:", "Here is the extracted information:",
      "The extracted data is:", "Based on the image, here's the data:">>

\* str.find of one token from position from on: its index, 0 for -1
Find(text, token, from) ==
    LET hits == {i \in from..Len(text) : text[i] = token}
    IN  IF hits = {} THEN 0 ELSE CHOOSE i \in hits : \A j \in hits : i <= j

\* str.rfind of one token
RFind(text, token) ==
    LET hits == {i \in 1..Len(text) : text[i] = token}
    IN  IF hits = {} THEN 0 ELSE CHOOSE i \in hits : \A j \in hits : i >= j

\* find of the fence with json: the index of the first fence that json follows
FindFenceJson(text) ==
    LET hits == {i \in 1..(Len(text) - 1) : text[i] = Fence /\ text[i + 1] = "json"}
    IN  IF hits = {} THEN 0 ELSE CHOOSE i \in hits : \A j \in hits : i <= j

\* ocr.py lines 69-78: the text between the first fence and the next one
Unfenced(text) ==
    LET start == IF FindFenceJson(text) # 0 THEN FindFenceJson(text) + 2
                 ELSE Find(text, Fence, 1) + 1
        end == Find(text, Fence, start)
    IN  IF Find(text, Fence, 1) = 0 \/ end = 0 THEN text
        ELSE Strip(SubSeq(text, start, end - 1))

\* ocr.py lines 85-87: the loop over the prefixes, from the k-th on
RECURSIVE WithoutPrefixes(_, _)
WithoutPrefixes(text, k) ==
    IF k > Len(prefixes_to_remove) THEN text
    ELSE IF text # <<>> /\ Head(text) = prefixes_to_remove[k]
         THEN WithoutPrefixes(Strip(Tail(text)), k + 1)
         ELSE WithoutPrefixes(text, k + 1)

\* ocr.py lines 88-91
JsonObject(text) ==
    LET start_idx == Find(text, "{", 1)
        end_idx == RFind(text, "}")
    IN  IF start_idx # 0 /\ end_idx # 0 /\ end_idx > start_idx
        THEN SubSeq(text, start_idx, end_idx)
        ELSE text

\* ocr.py lines 68-92
clean_ai_response(response_text) ==
    Strip(JsonObject(WithoutPrefixes(Unfenced(response_text), 1)))

\* ocr.py lines 111-113: clean_ai_response is applied to the text of the
\* response
CleanResponse ==
    /\ api.pc = "sanitize"
    /\ api.response_text # <<>>
    /\ api' = [api EXCEPT !.pc = "cleaned", !.cleaned = clean_ai_response(api.response_text)]
    /\ UNCHANGED <<store, next_id, run, result, del_result, faulted, base, intact, ana>>

(***************************************************************************)
(* process_result_card                                                     *)
(***************************************************************************)
Response(status_code, status, detail) ==
    [status_code |-> status_code, status |-> status, detail |-> detail,
     message |-> "", inner |-> ""]

\* an answer whose detail is an f-string over the message of the error
ResponseWith(status_code, detail, error_message) ==
    [status_code |-> status_code, status |-> "", detail |-> detail,
     message |-> error_message.text, inner |-> error_message.inner]

NoMessage == [text |-> "", words |-> {}, inner |-> ""]
\* str(e) of an exception: its text, which of the words the handlers look
\* for the text holds once lower-cased, and the text of the exception it
\* interpolates
Message(text, words, inner) == [text |-> text, words |-> words, inner |-> inner]

\* exceptions of the AI call that lines 127-137 of ocr.py do not single out,
\* by their text
UnexpectedErrors ==
    {Message("list index out of range", {}, ""),
     Message("error parsing candidate", {"parsing"}, "")}

\* ocr.py lines 96, 98 and 119-140: the message of the OCRProcessingError
\* raised; e is the exception of the AI call
OCRProcessingError(kind, e) ==
    CASE kind = "unavailable" ->
             Message("Gemini AI service unavailable - AI processing not configured", {}, "")
      [] kind = "no_key" ->
             Message("Gemini API key not configured - contact administrator", {}, "")
      [] kind = "bad_json" ->
             Message("AI response parsing failed - the image may not contain clear grade information",
                     {"parsing"}, "")
      [] kind = "rate_limit" ->
             Message("AI service temporarily unavailable due to rate limits - please try again in a few minutes",
                     {"rate limit"}, "")
      [] kind = "authentication" ->
             Message("AI service authentication failed - contact administrator",
                     {"authentication"}, "")
      [] kind = "network" ->
             Message("Network error accessing AI service - please check your connection and try again",
                     {}, "")
      [] OTHER -> Message("AI processing failed: {str(e)}", e.words, e.text)

\* api.py lines 255-265: the answer to an OCRProcessingError, by the words
\* its message holds
OcrErrorResponse(error_message) ==
    IF "rate limit" \in error_message.words
    THEN Response(429, "", "AI service rate limit exceeded")
    ELSE IF "authentication" \in error_message.words
    THEN Response(503, "", "AI service configuration error")
    ELSE IF "parsing" \in error_message.words
    THEN Response(422, "", "Unable to extract grade information from image")
    ELSE ResponseWith(502, "AI processing failed: {error_message}", error_message)

\* service.py lines 40 and 147-167: the message of the DatabaseError raised
DatabaseErrorMessage(error) ==
    CASE error = "duplicate_data" ->
             Message("Some grades for this semester already exist - cannot process duplicate data",
                     {"duplicate"}, "")
      [] error = "invalid_user_reference" ->
             Message("Invalid user reference - please re-login and try again", {}, "")
      [] error = "invalid_grade_data" ->
             Message("Invalid grade data - please ensure the image contains valid academic information",
                     {}, "")
      [] error = "no_subjects" -> Message("No subjects found in extracted data", {}, "")
      [] OTHER -> Message("Database storage failed: unable to save grade data", {}, "")

\* api.py lines 266-274: the answer to a DatabaseError, by the words its
\* message holds
DatabaseErrorResponse(error) ==
    LET error_message == DatabaseErrorMessage(error)
    IN  IF "duplicate" \in error_message.words
        THEN Response(409, "", "Some grades for this semester already exist")
        ELSE IF "constraint" \in error_message.words
        THEN Response(422, "", "Invalid grade data format")
        ELSE ResponseWith(500, "Database storage failed: {error_message}", error_message)

\* api.py lines 275-283: the answer to any other exception; none of the
\* details of validate_upload_file holds "timeout" or "memory"
UnexpectedErrorResponse == Response(500, "", "An unexpected error occurred")

\* api.py lines 233-250
ApiStatus(storage_result) ==
    IF storage_result.status = "all_duplicates" THEN "duplicate_detected" ELSE "completed"

\* a handler that stores whatever was extracted
AfterValidateAlwaysStore(valid) == "store"

\* api.py lines 220-229: where the handler goes after the validation
AfterValidate(valid) == IF valid THEN "store" ELSE "responded"

\* api.py lines 206-215: a request comes in, get_db_session (lines 162-164
\* of shared/database.py) creates its session and yields it, and
\* validate_upload_file runs; the HTTPException it raises is caught by the
\* clause of line 275.  A request is followed only when an upload id is left
\* for it and the session of the request before it is released.
ApiValidateFile(file, user_id) ==
    LET detail == validate_upload_file(file)
        fresh == [IdleApi EXCEPT !.file = file, !.user_id = user_id,
                                 !.at_start = [grades |-> grades, uploads |-> uploads,
                                               next_id |-> next_id],
                                 !.db = [pc |-> "yielded", calls |-> <<>>]]
    IN  /\ api.pc \in {"idle", "responded"}
        /\ api.db.pc # "yielded"
        /\ next_id <= MaxUploads
        /\ api' = IF detail # ""
                  THEN [fresh EXCEPT !.pc = "responded", !.caught = "HTTPException",
                                     !.response = UnexpectedErrorResponse]
                  ELSE [fresh EXCEPT !.pc = "sharpen"]
        /\ UNCHANGED <<store, next_id, run, result, del_result, faulted, base, intact, ana>>

\* api.py lines 216-217: file.read() and sharpen_image, which never raises
ApiSharpen ==
    /\ api.pc = "sharpen"
    /\ api' = [api EXCEPT !.pc = "extract", !.stages = Append(@, "preprocess")]
    /\ UNCHANGED <<store, next_id, run, result, del_result, faulted, base, intact, ana>>

\* api.py line 218, ocr.py lines 95-111: the call of the AI model
ApiExtract(outcome, e) ==
    /\ api.pc = "extract"
    /\ api' = IF outcome \in {"text", "bad_json"}
              THEN [api EXCEPT !.pc = "sanitize", !.stages = Append(@, "extract"),
                               !.response = Response(0, "", outcome)]
              ELSE [api EXCEPT !.pc = "responded", !.stages = Append(@, "extract"),
                               !.caught = "OCRProcessingError", !.error = outcome,
                               !.response = OcrErrorResponse(OCRProcessingError(outcome, e))]
    /\ UNCHANGED <<store, next_id, run, result, del_result, faulted, base, intact, ana>>

\* ocr.py lines 113-124: clean_ai_response and json.loads
ApiSanitize(extracted_data) ==
    /\ api.pc = "sanitize"
    /\ api' = IF api.response.detail = "bad_json"
              THEN [api EXCEPT !.pc = "responded", !.stages = Append(@, "sanitize"),
                               !.caught = "OCRProcessingError", !.error = "bad_json",
                               !.response =
                                   OcrErrorResponse(OCRProcessingError("bad_json", NoMessage))]
              ELSE [api EXCEPT !.pc = "validate", !.stages = Append(@, "sanitize"),
                               !.response = NoResponse,
                               !.extracted_data = extracted_data]
    /\ UNCHANGED <<store, next_id, run, result, del_result, faulted, base, intact, ana>>

\* api.py lines 220-227
ApiValidate ==
    LET valid == validate_extracted_grades(api.extracted_data)
    IN  /\ api.pc = "validate"
        /\ api' = IF AfterValidate(valid) = "store"
                  THEN [api EXCEPT !.pc = "store", !.stages = Append(@, "validate")]
                  ELSE [api EXCEPT !.pc = "responded", !.stages = Append(@, "validate"),
                                   !.response = Response(200, "processing_failed",
                                                         "Grade extraction failed")]
        /\ UNCHANGED <<store, next_id, run, result, del_result, faulted, base, intact, ana>>

\* api.py lines 229-231: store_extracted_grades is called
ApiStore(s, fault) ==
    /\ api.pc = "store"
    /\ api' = [api EXCEPT !.pc = "storing", !.stages = Append(@, "store")]
    /\ StartRun(s, api.user_id, api.extracted_data, fault)
    /\ UNCHANGED ana

\* the calls store_extracted_grades has made on the session when it is
\* over: the commit of line 113 or 130, and the rollback of line 143 or 145
\* before it raises
ServiceCalls(s) ==
    IF result[s].kind = "returned" THEN <<"commit">>
    ELSE IF "commit" \in faulted[s] THEN <<"commit_failed", "rollback">>
    ELSE <<"rollback">>

\* api.py lines 233-250 and 266-274: store_extracted_grades has returned or
\* raised
ApiRespond(s) ==
    /\ api.pc = "storing"
    /\ run[s].pc = "done"
    /\ api' = [api EXCEPT !.pc = "responded",
                          !.db.calls = @ \o ServiceCalls(s),
                          !.caught = IF result[s].kind = "returned" THEN ""
                                     ELSE "DatabaseError",
                          !.error = IF result[s].kind = "returned" THEN ""
                                    ELSE result[s].error,
                          !.response =
                              IF result[s].kind = "returned"
                              THEN Response(200, ApiStatus(result[s]), "")
                              ELSE DatabaseErrorResponse(result[s].error)]
    /\ UNCHANGED <<store, next_id, run, result, del_result, faulted, base, intact, ana>>

\* the handler left by raising: every answer other than a 200 is an
\* HTTPException raised out of process_result_card
HandlerRaised == api.response.status_code # 200

\* a generator without the finally clause: the session is closed only when
\* nothing was raised
ReleaseCallsNoFinally(raised, commit_fails) ==
    IF raised THEN <<"rollback">>
    ELSE IF commit_fails THEN <<"commit_failed", "rollback">>
    ELSE <<"commit", "close">>

\* shared/database.py lines 165-171: what get_db_session does to the session
\* once the handler is over.  The exception of the handler is thrown into the
\* generator at its yield; a commit that fails raises into the same clause.
ReleaseCalls(raised, commit_fails) ==
    IF raised THEN <<"rollback", "close">>
    ELSE IF commit_fails THEN <<"commit_failed", "rollback", "close">>
    ELSE <<"commit", "close">>

\* shared/database.py lines 165-171: the generator runs to its end.  The
\* session holds no change at this point: store_extracted_grades has
\* committed or rolled back whatever it added.
ApiRelease(commit_fails) ==
    /\ api.pc = "responded"
    /\ api.db.pc = "yielded"
    /\ api' = [api EXCEPT !.db = [pc |-> "exited",
                                  calls |-> @.calls \o ReleaseCalls(HandlerRaised, commit_fails)]]
    /\ UNCHANGED <<store, next_id, run, result, del_result, faulted, base, intact, ana>>

(***************************************************************************)
(* AnalyticsService                                                        *)
(***************************************************************************)
RECURSIVE SumCredits(_)
SumCredits(rows) ==
    IF rows = {} THEN 0
    ELSE LET g == CHOOSE x \in rows : TRUE
         IN  g.credits + SumCredits(rows \ {g})

\* a sum of the grade points that forgets the credits
RECURSIVE SumPoints(_)
SumPoints(rows) ==
    IF rows = {} THEN 0
    ELSE LET g == CHOOSE x \in rows : TRUE
         IN  g.gpa_points + SumPoints(rows \ {g})

RECURSIVE SumWeighted(_)
SumWeighted(rows) ==
    IF rows = {} THEN 0
    ELSE LET g == CHOOSE x \in rows : TRUE
         IN  g.gpa_points * g.credits + SumWeighted(rows \ {g})

\* x / credits if credits > 0 else 0.0, rounded to 2 decimals
Average(weighted, credits) == IF credits > 0 THEN Round2(weighted, credits) ELSE 0

\* sorted() of a set of integers
RECURSIVE SortedSeq(_)
SortedSeq(nums) ==
    IF nums = {} THEN <<>>
    ELSE LET m == CHOOSE x \in nums : \A y \in nums : x <= y
         IN  <<m>> \o SortedSeq(nums \ {m})

\* the semesters taken largest first
SemesterOrderDescending(keys) ==
    LET up == SortedSeq(keys) IN [i \in 1..Len(up) |-> up[Len(up) + 1 - i]]

\* analytics/service.py line 63: sorted(semester_data.keys())
SemesterOrder(keys) == SortedSeq(keys)

\* analytics/service.py lines 62-74: one entry of semester_breakdown; the
\* subjects list is the function from the rows of the semester to their dicts
SemesterEntry(rows, sem_num) ==
    LET sem_rows == {g \in rows : g.semester = sem_num}
    IN  [semester |-> sem_num,
         subjects_count |-> Cardinality(sem_rows),
         total_credits |-> SumCredits(sem_rows),
         sgpa |-> Average(SumWeighted(sem_rows), SumCredits(sem_rows)),
         subjects |-> [g \in sem_rows |-> StoredGrade(g)]]

\* a cgpa that is the mean of the semesters' SGPAs
CgpaMeanOfSgpas(all_grades) ==
    LET sems == {g.semester : g \in all_grades}
        sgpas == [n \in sems |-> SemesterEntry(all_grades, n).sgpa]
        RECURSIVE Total(_)
        Total(S) == IF S = {} THEN 0
                    ELSE LET n == CHOOSE x \in S : TRUE IN sgpas[n] + Total(S \ {n})
    IN  IF sems = {} THEN 0 ELSE Round2(Total(sems), 100 * Cardinality(sems))

\* analytics/service.py lines 59-60, 76 and 82: the cgpa over all the rows
Cgpa(all_grades) == Average(SumWeighted(all_grades), SumCredits(all_grades))

\* calculate_user_cgpa over the committed rows G
calculate_user_cgpa(G, user_id) ==
    LET all_grades == {g \in G : g.user_id = user_id}
        sems == SemesterOrder({g.semester : g \in all_grades})
    IN  IF all_grades = {}
        THEN [user_id |-> user_id, total_subjects |-> 0, total_credits |-> 0,
              cgpa |-> 0, semesters_completed |-> 0, semester_breakdown |-> <<>>]
        ELSE [user_id |-> user_id,
              total_subjects |-> Cardinality(all_grades),
              total_credits |-> SumCredits(all_grades),
              cgpa |-> Cgpa(all_grades),
              semesters_completed |-> Len(sems),
              semester_breakdown |->
                  [i \in 1..Len(sems) |-> SemesterEntry(all_grades, sems[i])]]

\* a semester summary that is absent only when the user has no row at all
get_semester_summary_any(G, user_id, semester) ==
    LET rows == {g \in G : g.user_id = user_id /\ g.semester = semester}
    IN  IF ~\E g \in G : g.user_id = user_id THEN NoSemesterData
        ELSE [present |-> TRUE,
              user_id |-> user_id, semester |-> semester,
              subjects_count |-> Cardinality(rows),
              total_credits |-> SumCredits(rows),
              sgpa |-> Average(SumWeighted(rows), SumCredits(rows)),
              subjects |-> [g \in rows |-> StoredGrade(g)]]

\* analytics/service.py lines 91-122: get_semester_summary over the
\* committed rows G; present is false for the None returned at line 98
get_semester_summary(G, user_id, semester) ==
    LET rows == {g \in G : g.user_id = user_id /\ g.semester = semester}
    IN  IF rows = {} THEN NoSemesterData
        ELSE [present |-> TRUE,
              user_id |-> user_id, semester |-> semester,
              subjects_count |-> Cardinality(rows),
              total_credits |-> SumCredits(rows),
              sgpa |-> Average(SumWeighted(rows), SumCredits(rows)),
              subjects |-> [g \in rows |-> StoredGrade(g)]]

\* a request that leaves the session holding the deletion of what it read
ReadLeavesDeletion(rows, read) == rows \ read

\* shared/database.py lines 154-171: the commit (or, after a raise, the
\* rollback) that ends a request whose session only read rows
ReadLeaves(rows, read) == rows

\* slot s serves an analytics request of user_id; fails is the failure of
\* its query (lines 87-89 and 124-128: DatabaseError)
AnswerAnalytics(s, op, user_id, semester, fails) ==
    /\ run[s].pc \in {"idle", "done"}
    /\ run' = [run EXCEPT ![s] = IdleRun]
    /\ result' = [result EXCEPT ![s] = NoResult]
    /\ del_result' = [del_result EXCEPT ![s] = NoDelete]
    /\ faulted' = [faulted EXCEPT ![s] = {}]
    /\ base' = [base EXCEPT ![s] = [NoBase EXCEPT !.grades = grades, !.uploads = uploads]]
    /\ intact' = [intact EXCEPT ![s] = FALSE]
    /\ ana' = [op |-> op, user_id |-> user_id, semester |-> semester,
               kind |-> IF fails THEN "raised" ELSE "returned",
               query_failed |-> fails,
               cgpa_data |-> IF fails \/ op # "cgpa" THEN NoCgpaData
                             ELSE calculate_user_cgpa(grades, user_id),
               semester_data |-> IF fails \/ op # "semester" THEN NoSemesterData
                                 ELSE get_semester_summary(grades, user_id, semester)]
    /\ grades' = ReadLeaves(grades, {g \in grades : g.user_id = user_id})
    /\ UNCHANGED <<uploads, next_id>>

\* GET analytics: calculate_user_cgpa
CalculateCgpa(s, user_id, fails) == AnswerAnalytics(s, "cgpa", user_id, 0, fails)

\* GET analytics for a semester: get_semester_summary
SemesterSummary(s, user_id, semester, fails) ==
    AnswerAnalytics(s, "semester", user_id, semester, fails)

(***************************************************************************)
(* Inputs                                                                  *)
(***************************************************************************)
RECURSIVE SeqsUpTo(_, _)
SeqsUpTo(S, n) ==
    IF n = 0 THEN {<<>>}
    ELSE LET shorter == SeqsUpTo(S, n - 1)
         IN  shorter \cup {Append(q, x) : q \in {p \in shorter : Len(p) = n - 1}, x \in S}

SubjDS == Subject(JStr(<<"C", "1">>), JStr(<<"D", "S">>), JInt(4), JStr(<<"O">>))
SubjAL == Subject(JStr(<<"C", "2">>), JStr(<<"A", "L">>), JInt(3), JStr(<<"a">>))
SubjNW == Subject(JStr(<<" ", "C", "3">>), JStr(<<"N", "W">>), JStr(<<"3">>), JStr(<<"B", "+", " ">>))
SubjBlank == Subject(JStr(<<" ">>), JStr(<<"L", "B">>), JInt(2), JStr(<<"A">>))

SeqPool == {SubjDS, SubjAL, SubjNW, SubjBlank}
SeqUsers == {"u1"}
SeqPayloads ==
    {ExtractedData(AllKeys, "dict", JStr(<<"3">>), subjects) :
        subjects \in SeqsUpTo(SeqPool, MaxSubjects)}

RacePool == {SubjDS, SubjAL, SubjBlank}
RaceUsers == {"u1"}
RacePayloads ==
    {ExtractedData(AllKeys, "dict", JInt(2), subjects) :
        subjects \in SeqsUpTo(RacePool, MaxRaceSubjects)}

\* outcomes of a store operation in the state-machine specifications
Outcomes == {"ok", "other"}

\* payloads for the normalisation of grade, credits and semester
MaxNormRuns == 1
GradeSubject(grade) == Subject(JStr(<<"G", "1">>), JStr(<<"G", "V">>), JInt(2), grade)
CreditsSubject(credits) == Subject(JStr(<<"K", "1">>), JStr(<<"K", "V">>), credits, JStr(<<"A">>))
NormGrades ==
    {JStr(<<>>), JStr(<<" ">>), JNull, JMissing, JStr(<<"N", "O", "N", "E">>),
     JStr(<<" ", "n", "o", "n", "e">>), JStr(<<"a", "+", " ">>), JStr(<<"X">>),
     JStr(<<"b">>)}
NormCreditValues ==
    {JMissing, JNull, JInt(0), JInt(1), JInt(6), JInt(7), JInt(9), JInt(0 - 1),
     JStr(<<"4">>), JStr(<<"x">>), JFloat(45), JFloat(65), JInf, JList(1), JList(0)}
NormSemesters ==
    {JMissing, JNull, JInt(0), JInt(1), JInt(12), JInt(13), JInt(15), JInt(0 - 3),
     JStr(<<"7">>), JStr(<<"1", "5">>), JStr(<<"0">>), JStr(<<"x">>), JStr(<<>>),
     JStr(<<"^2">>), JFloat(30), JList(1)}
\* every letter of the table, one in lower case and one that is unknown,
\* each in a subject for which the AI gives 1 grade point
NormLetters ==
    {<<"O">>, <<"A", "+">>, <<"A">>, <<"B", "+">>, <<"B">>, <<"C">>, <<"D">>, <<"F">>,
     <<"U">>, <<"A", "B">>, <<"a", "+">>, <<"X">>}
PointsSubject(letter) ==
    [Subject(JStr(<<"P", "1">>), JStr(<<"P", "V">>), JInt(3), JStr(letter))
        EXCEPT !.grade_points = JInt(1)]
NormPayloads ==
    {ExtractedData(AllKeys, "dict", JInt(2), <<GradeSubject(g), SubjDS>>) : g \in NormGrades}
    \cup {ExtractedData(AllKeys, "dict", JInt(2), <<CreditsSubject(c), SubjDS>>) :
              c \in NormCreditValues}
    \cup {ExtractedData(AllKeys, "dict", sem, <<SubjDS, SubjDS>>) : sem \in NormSemesters}
    \cup {[ExtractedData(AllKeys, "dict", JInt(2), <<PointsSubject(l), SubjAL>>)
               EXCEPT !.semester_summary = JInt(123)] : l \in NormLetters}

(***************************************************************************)
(* Spec: ingestion requests run concurrently, each in its own session      *)
(***************************************************************************)
Next ==
    \/ \E s \in Slots, u \in RaceUsers, d \in RacePayloads, f \in Outcomes :
            StartRun(s, u, d, f) /\ UNCHANGED <<api, ana>>
    \/ \E s \in Slots, q \in BOOLEAN : ProcessSubject(s, q) /\ UNCHANGED <<api, ana>>
    \/ \E s \in Slots, f \in Outcomes : Finish(s, f) /\ UNCHANGED <<api, ana>>

Spec == Init /\ [][Next]_vars

(***************************************************************************)
(* SpecSeq: requests do not overlap: one ingestion run or one delete at a  *)
(* time                                                                    *)
(***************************************************************************)
NextSeq ==
    \/ \E u \in SeqUsers, d \in SeqPayloads, f \in Outcomes :
            StartRun("r1", u, d, f) /\ UNCHANGED <<api, ana>>
    \/ \E q \in BOOLEAN : ProcessSubject("r1", q) /\ UNCHANGED <<api, ana>>
    \/ \E f \in Outcomes : Finish("r1", f) /\ UNCHANGED <<api, ana>>
    \/ \E u \in SeqUsers, x \in BOOLEAN : DeleteAll("r1", u, x) /\ UNCHANGED <<api, ana>>
    \/ \E u \in SeqUsers, x \in BOOLEAN : DeleteSemester("r1", u, 3, x) /\ UNCHANGED <<api, ana>>
    \/ \E u \in SeqUsers, id \in 1..MaxUploads, x \in BOOLEAN :
            DeleteUpload("r1", u, id, x) /\ UNCHANGED <<api, ana>>

SpecSeq == Init /\ [][NextSeq]_vars

(***************************************************************************)
(* SpecDel: delete requests served in r2 while ingestion runs of two users *)
(* are served in r1; delete_all_user_data yields between its reads         *)
(***************************************************************************)
DelUsers == {"u1", "u2"}
\* the user whose delete requests are followed
DelOwners == {"u1"}
DelSemesters == 1..2
DelPayloads ==
    {ExtractedData(AllKeys, "dict", JInt(1), <<SubjDS>>),
     ExtractedData(AllKeys, "dict", JInt(2), <<SubjAL>>)}

NextDel ==
    \/ \E u \in DelUsers, d \in DelPayloads :
            StartRun("r1", u, d, "ok") /\ UNCHANGED <<api, ana>>
    \/ ProcessSubject("r1", FALSE) /\ UNCHANGED <<api, ana>>
    \/ Finish("r1", "ok") /\ UNCHANGED <<api, ana>>
    \/ \E u \in DelOwners, x \in BOOLEAN : DeleteAllCount("r2", u, x) /\ UNCHANGED <<api, ana>>
    \/ \E x \in BOOLEAN : DeleteAllRemove("r2", x) /\ UNCHANGED <<api, ana>>
    \/ \E u \in DelOwners, n \in DelSemesters, x \in BOOLEAN :
            DeleteSemester("r2", u, n, x) /\ UNCHANGED <<api, ana>>
    \/ \E u \in DelOwners, id \in 1..MaxUploads, x \in BOOLEAN :
            DeleteUpload("r2", u, id, x) /\ UNCHANGED <<api, ana>>

SpecDel == Init /\ [][NextDel]_vars

(***************************************************************************)
(* SpecLife: ingestion runs, analytics reads and deletes of two users, one *)
(* request at a time; a course is ingested again with another name,        *)
(* credits and letter grade                                                *)
(***************************************************************************)
LifeUsers == {"u1", "u2"}
LifeSemesters == 1..2
SubjOS == Subject(JStr(<<"C", "4">>), JStr(<<"O", "S">>), JInt(2), JStr(<<"B">>))
SubjDSRevised == Subject(JStr(<<"C", "1">>), JStr(<<"D", "T">>), JInt(2), JStr(<<"B">>))
\* 6 credits and 52 weighted points, the course C1 again, a course of
\* semester 2
LifePayloads ==
    {ExtractedData(AllKeys, "dict", JInt(1), <<SubjDS, SubjOS>>),
     ExtractedData(AllKeys, "dict", JInt(1), <<SubjDSRevised>>),
     ExtractedData(AllKeys, "dict", JInt(2), <<SubjAL>>)}

NextLife ==
    \/ \E u \in LifeUsers, d \in LifePayloads :
            StartRun("r1", u, d, "ok") /\ ana' = NoAnalytics /\ UNCHANGED api
    \/ ProcessSubject("r1", FALSE) /\ UNCHANGED <<api, ana>>
    \/ \E f \in Outcomes : Finish("r1", f) /\ UNCHANGED <<api, ana>>
    \/ \E u \in LifeUsers, x \in BOOLEAN : CalculateCgpa("r1", u, x) /\ UNCHANGED api
    \/ \E u \in LifeUsers, n \in LifeSemesters, x \in BOOLEAN :
            SemesterSummary("r1", u, n, x) /\ UNCHANGED api
    \/ \E u \in LifeUsers, x \in BOOLEAN :
            DeleteAll("r1", u, x) /\ ana' = NoAnalytics /\ UNCHANGED api
    \/ \E u \in LifeUsers, n \in LifeSemesters, x \in BOOLEAN :
            DeleteSemester("r1", u, n, x) /\ ana' = NoAnalytics /\ UNCHANGED api
    \/ \E u \in LifeUsers, id \in 1..MaxUploads, x \in BOOLEAN :
            DeleteUpload("r1", u, id, x) /\ ana' = NoAnalytics /\ UNCHANGED api

SpecLife == Init /\ [][NextLife]_vars

(***************************************************************************)
(* SpecAna: ingestion runs of two users fill the store and analytics       *)
(* requests read it, one request at a time                                 *)
(***************************************************************************)
AnaUsers == {"u1", "u2"}
AnaSemesters == 1..3
\* 10 credits and 85 weighted points in semester 1, 8 credits and 64 weighted
\* points in semester 2, one subject in semester 3
AnaPayloads ==
    {ExtractedData(AllKeys, "dict", JInt(1), <<SubjDS, SubjAL, SubjNW>>),
     ExtractedData(AllKeys, "dict", JInt(2),
                   <<Subject(JStr(<<"D", "1">>), JStr(<<"O", "S">>), JInt(4), JStr(<<"A">>)),
                     Subject(JStr(<<"D", "2">>), JStr(<<"D", "B">>), JInt(4), JStr(<<"A">>))>>),
     ExtractedData(AllKeys, "dict", JStr(<<"3">>), <<SubjDS>>)}

NextAna ==
    \/ \E u \in AnaUsers, d \in AnaPayloads :
            StartRun("r1", u, d, "ok") /\ ana' = NoAnalytics /\ UNCHANGED api
    \/ ProcessSubject("r1", FALSE) /\ UNCHANGED <<api, ana>>
    \/ Finish("r1", "ok") /\ UNCHANGED <<api, ana>>
    \/ \E u \in AnaUsers, x \in BOOLEAN : CalculateCgpa("r1", u, x) /\ UNCHANGED api
    \/ \E u \in AnaUsers, n \in AnaSemesters, x \in BOOLEAN :
            SemesterSummary("r1", u, n, x) /\ UNCHANGED api

SpecAna == Init /\ [][NextAna]_vars

(***************************************************************************)
(* SpecNorm: store_extracted_grades on payloads with unusual values        *)
(***************************************************************************)
NextNorm ==
    \/ \E u \in SeqUsers, d \in NormPayloads, f \in Outcomes :
            next_id <= MaxNormRuns /\ StartRun("r1", u, d, f) /\ UNCHANGED <<api, ana>>
    \/ \E q \in BOOLEAN : ProcessSubject("r1", q) /\ UNCHANGED <<api, ana>>
    \/ \E f \in Outcomes : Finish("r1", f) /\ UNCHANGED <<api, ana>>

SpecNorm == Init /\ [][NextNorm]_vars

(***************************************************************************)
(* SpecApi: requests to process_result_card, one at a time                 *)
(***************************************************************************)
ApiFiles ==
    {[content_type |-> ct, size |-> sz] :
        ct \in {"", "text/plain", "image/png", "image/jpeg"},
        sz \in {0, 1024, MAX_FILE_SIZE, MAX_FILE_SIZE + 1}}
ApiUsers == {"u1"}
ApiPayloads ==
    {ExtractedData(AllKeys, "dict", JStr(<<"3">>), <<SubjDS>>),
     ExtractedData(AllKeys, "dict", JStr(<<"3">>), <<SubjDS, SubjAL>>),
     ExtractedData(AllKeys, "dict", JStr(<<"3">>), <<SubjNW>>),
     ExtractedData(AllKeys, "dict", JStr(<<"3">>), <<>>),
     ExtractedData(AllKeys, "null", JMissing, <<SubjDS>>),
     ExtractedData({"student_info", "semester_summary"}, "dict", JStr(<<"3">>), <<>>),
     ExtractedData({"student_info", "subjects"}, "dict", JStr(<<"3">>), <<SubjDS>>),
     ExtractedData(AllKeys, "dict", JStr(<<"3">>),
                   <<Subject(JStr(<<"C", "1">>), JStr(<<"D", "S">>), JInt(4), JMissing)>>)}

NextApi ==
    \/ \E file \in ApiFiles, u \in ApiUsers : ApiValidateFile(file, u)
    \/ ApiSharpen
    \/ \E outcome \in ExtractionOutcomes :
            \E e \in IF outcome = "unexpected" THEN UnexpectedErrors ELSE {NoMessage} :
                ApiExtract(outcome, e)
    \/ \E d \in ApiPayloads : ApiSanitize(d)
    \/ ApiValidate
    \/ \E f \in {"ok"} \cup DbFaults : ApiStore("r1", f)
    \/ \E q \in BOOLEAN : ProcessSubject("r1", q) /\ UNCHANGED <<api, ana>>
    \/ \E f \in {"ok"} \cup DbFaults : Finish("r1", f) /\ UNCHANGED <<api, ana>>
    \/ ApiRespond("r1")
    \/ \E x \in BOOLEAN : ApiRelease(x)

SpecApi == Init /\ [][NextApi]_vars

(***************************************************************************)
(* SpecClean: clean_ai_response on every text of up to MaxTextLen tokens   *)
(***************************************************************************)
MaxTextLen == 5
\* the texts of the tokens that clean_ai_response tells apart, with two of
\* the preamble phrases
RawTexts ==
    SeqsUpTo({Fence, "json", "{", "}", " ", "x",
              prefixes_to_remove[1], prefixes_to_remove[2]}, MaxTextLen) \ {<<>>}

\* a request whose AI call has returned its text
InitClean ==
    /\ InitStore
    /\ \E text \in RawTexts :
          api = [IdleApi EXCEPT !.pc = "sanitize", !.user_id = "u1",
                                !.file = [content_type |-> "image/png", size |-> 1024],
                                !.stages = <<"preprocess", "extract">>,
                                !.response = Response(0, "", "text"),
                                !.db = [pc |-> "yielded", calls |-> <<>>],
                                !.response_text = text]

NextClean == CleanResponse

SpecClean == InitClean /\ [][NextClean]_vars

\* the event loop runs a request that can take a step
SpecApiFair == SpecApi /\ WF_vars(NextApi)

(***************************************************************************)
(* Properties                                                              *)
(***************************************************************************)
Done(s) == run[s].pc = "done"
Subjects(s) == run[s].extracted_data.subjects
\* the loop over subjects ran to its end
LoopEnded(s) == Done(s) /\ run[s].idx > Len(Subjects(s))
OwnUploads(s) == {u \in uploads : u.id = run[s].upload_record.id}
OwnGrades(s) == {g \in grades : g.id[1] = run[s].upload_record.id}
GradesOfUpload(k) == {g \in grades : g.id[1] = k}

RECURSIVE SeqSum(_)
SeqSum(nums) == IF nums = <<>> THEN 0 ELSE Head(nums) + SeqSum(Tail(nums))

\* C1: a run's GradeUpload, its final status and all the Grade rows the run
\* staged are in the committed store together or not at all: nothing of a run
\* is committed while it runs or after it raised; after it returned the store
\* holds its GradeUpload with a final status and exactly the staged rows; and
\* of every upload id drawn, the store holds rows only with a finalised
\* GradeUpload, numbered without a gap.
C1_AllOrNothing ==
    /\ \A s \in Slots :
          /\ (run[s].pc = "loop" \/ (Done(s) /\ result[s].kind = "raised"))
                => OwnUploads(s) = {} /\ OwnGrades(s) = {}
          /\ (Done(s) /\ result[s].kind = "returned")
                => /\ OwnUploads(s) = {run[s].upload_record}
                   /\ run[s].upload_record.status \in {"completed", "all_duplicates"}
                   /\ OwnGrades(s) = Range(run[s].added)
                   /\ Cardinality(OwnGrades(s)) = Len(run[s].stored_grades)
    /\ \A k \in 1..MaxUploads + 1 :
          LET us == {u \in uploads : u.id = k}
              n == Cardinality(GradesOfUpload(k))
          IN  /\ Cardinality(us) <= 1
              /\ us = {} => n = 0
              /\ \A u \in us : /\ u.status \in {"completed", "all_duplicates"}
                                /\ (u.status = "completed") <=> (n > 0)
              /\ {g.id[2] : g \in GradesOfUpload(k)} = 1..n

\* one run has committed two rows with its upload, another has staged a row
\* and rolled back
C1_Witness ==
    \E s, t \in Slots :
        /\ Done(s) /\ result[s].kind = "returned" /\ Len(run[s].added) >= 2
        /\ Range(run[s].added) \subseteq grades
        /\ Done(t) /\ result[t].kind = "raised" /\ Len(run[t].added) >= 1

\* C2: a fault-free run that ingests again the payload of the fault-free run
\* committed just before it, for the same user, adds no Grade row, commits
\* its GradeUpload as all_duplicates and leaves calculate_user_cgpa as it was.
C2_Idempotent ==
    \A s \in Slots :
        (Done(s) /\ base[s].repeat /\ faulted[s] = {})
        => /\ result[s].kind = "returned"
           /\ result[s].status = "all_duplicates"
           /\ result[s].subjects_stored = 0
           /\ grades = base[s].grades
           /\ run[s].upload_record.status = "all_duplicates"
           /\ uploads = base[s].uploads \cup {run[s].upload_record}
           /\ calculate_user_cgpa(grades, run[s].user_id)
                = calculate_user_cgpa(base[s].grades, run[s].user_id)

\* the second run of a payload whose first run stored two grades has ended
C2_Witness ==
    \E s \in Slots :
        /\ Done(s) /\ base[s].repeat /\ faulted[s] = {}
        /\ Cardinality({g \in base[s].grades : g.user_id = run[s].user_id}) >= 2
        /\ calculate_user_cgpa(grades, run[s].user_id).cgpa > 0

\* C3: when requests do not overlap, the store holds at most one Grade row
\* for a (user_id, course_code, semester).
C3_OneRowPerKey ==
    \A g, h \in grades : SameKey(g, h) => g = h

\* a committed run whose payload lists one course twice, both times with
\* code, name and grade, and the course is in the store
C3_Witness ==
    \E s \in Slots :
        /\ Done(s) /\ result[s].kind = "returned"
        /\ \E i, j \in 1..Len(Subjects(s)) :
              /\ i < j
              /\ ~SubjectSkipped(Subjects(s)[i])
              /\ ~SubjectSkipped(Subjects(s)[j])
              /\ CourseCode(Subjects(s)[i]) = CourseCode(Subjects(s)[j])
              /\ \E g \in OwnGrades(s) : g.course_code = CourseCode(Subjects(s)[i])

\* C4: when two runs have both staged a row for the same (user_id,
\* course_code, semester) - each asked the duplicate check before the other
\* committed - and both have returned, the store holds both rows and both
\* runs report completed.
C4_RaceLeavesTwoRows ==
    \A s, t \in Slots :
        (/\ s # t
         /\ Done(s) /\ result[s].kind = "returned"
         /\ Done(t) /\ result[t].kind = "returned")
        => \A g \in Range(run[s].added), h \in Range(run[t].added) :
              SameKey(g, h)
              => /\ g # h
                 /\ {g, h} \subseteq grades
                 /\ run[s].upload_record.status = "completed"
                 /\ run[t].upload_record.status = "completed"
                 /\ ApiStatus(result[s]) = "completed"
                 /\ ApiStatus(result[t]) = "completed"

\* two runs of one user have returned and the store holds a row of each for
\* the same course and semester
C4_Witness ==
    \E s, t \in Slots :
        /\ s # t
        /\ Done(s) /\ result[s].kind = "returned"
        /\ Done(t) /\ result[t].kind = "returned"
        /\ \E g \in OwnGrades(s), h \in OwnGrades(t) : SameKey(g, h) /\ g # h

\* C5 as claimed: a run in which a store operation failed - the flush, a
\* duplicate-check query or the commit - raises and leaves no GradeUpload and
\* no Grade row.
C5_StoreFailureRaises ==
    \A s \in Slots :
        (Done(s) /\ faulted[s] # {})
        => /\ result[s].kind = "raised"
           /\ OwnUploads(s) = {}
           /\ OwnGrades(s) = {}

\* C8: a run whose loop ended with no subject staged and whose commit did not
\* fail returns all_duplicates with subjects_stored 0 and duplicate_count the
\* length of the subjects list, and has added to the store one GradeUpload
\* with status all_duplicates and no Grade row.
C8_ZeroStaged ==
    \A s \in Slots :
        (LoopEnded(s) /\ run[s].stored_grades = <<>> /\ "commit" \notin faulted[s])
        => /\ result[s].kind = "returned"
           /\ result[s].status = "all_duplicates"
           /\ result[s].subjects_stored = 0
           /\ result[s].duplicate_count = Len(Subjects(s))
           /\ run[s].upload_record.status = "all_duplicates"
           /\ run[s].upload_record \notin base[s].uploads
           /\ uploads = base[s].uploads \cup {run[s].upload_record}
           /\ grades = base[s].grades

\* a run of two or more subjects has returned all_duplicates, one subject
\* skipped as a duplicate and one as invalid
C8_Witness ==
    \E s \in Slots :
        /\ LoopEnded(s) /\ result[s].status = "all_duplicates"
        /\ \E i, j \in 1..Len(Subjects(s)) :
              /\ SubjectSkipped(Subjects(s)[i])
              /\ ~SubjectSkipped(Subjects(s)[j])
              /\ \E g \in base[s].grades : g.course_code = CourseCode(Subjects(s)[j])

AddedCredits(s) == [i \in 1..Len(run[s].added) |-> run[s].added[i].credits]
AddedPoints(s) == [i \in 1..Len(run[s].added) |-> run[s].added[i].gpa_points]
AddedWeighted(s) ==
    [i \in 1..Len(run[s].added) |-> run[s].added[i].gpa_points * run[s].added[i].credits]
Abs(x) == IF x < 0 THEN 0 - x ELSE x

\* C9: a run that staged at least one subject and whose commit did not fail
\* has committed its GradeUpload as completed and returns subjects_stored =
\* the number of staged subjects, total_credits = the sum of their credits
\* (each in 1..6) and calculated_sgpa = the hundredth nearest to
\* sum(grade_points * credits) / sum(credits); credits 4,3,3 with points
\* 10,8,7 give 8.50.
C9_CompletedFigures ==
    \A s \in Slots :
        (LoopEnded(s) /\ run[s].stored_grades # <<>> /\ "commit" \notin faulted[s])
        => /\ result[s].kind = "returned"
           /\ run[s].upload_record.status = "completed"
           /\ run[s].upload_record \in uploads
           /\ ApiStatus(result[s]) = "completed"
           /\ result[s].subjects_stored = Len(run[s].added)
           /\ \A i \in 1..Len(run[s].added) : run[s].added[i].credits \in 1..6
           /\ result[s].total_credits = SeqSum(AddedCredits(s))
           /\ 2 * Abs(100 * SeqSum(AddedWeighted(s))
                        - result[s].calculated_sgpa * SeqSum(AddedCredits(s)))
                <= SeqSum(AddedCredits(s))
           /\ (AddedCredits(s) = <<4, 3, 3>> /\ AddedPoints(s) = <<10, 8, 7>>)
                => result[s].calculated_sgpa = 850

\* the run of the example has returned
C9_Witness ==
    \E s \in Slots :
        /\ LoopEnded(s) /\ result[s].kind = "returned"
        /\ AddedCredits(s) = <<4, 3, 3>>
        /\ AddedPoints(s) = <<10, 8, 7>>
        /\ result[s].calculated_sgpa = 850

\* the subjects of the payload that are new and valid: with code, name and
\* grade, no row of the user, course and semester in the store when the run
\* started, and not a repetition of an earlier such subject of the payload
InBase(s, code) ==
    \E g \in base[s].grades :
        g.user_id = run[s].user_id /\ g.course_code = code /\ g.semester = run[s].semester
Incomplete(subject_data) ==
    CourseCode(subject_data) = <<>> \/ CourseName(subject_data) = <<>>
ValidSubject(subject_data) ==
    /\ ~SubjectRaises(subject_data)
    /\ ~Incomplete(subject_data)
    /\ NormGrade(subject_data) \notin {<<>>, <<"N", "O", "N", "E">>}
NewValid(s) ==
    {i \in 1..Len(Subjects(s)) :
        /\ ValidSubject(Subjects(s)[i])
        /\ ~InBase(s, CourseCode(Subjects(s)[i]))
        /\ \A j \in 1..(i - 1) :
              ~ValidSubject(Subjects(s)[j])
              \/ CourseCode(Subjects(s)[j]) # CourseCode(Subjects(s)[i])}
Content(g) == [g EXCEPT !.id = <<>>]
ExpectedContent(s, i) ==
    Content(Grade(<<>>, run[s].user_id, CourseName(Subjects(s)[i]),
                  CourseCode(Subjects(s)[i]), NormCredits(Subjects(s)[i]),
                  NormGrade(Subjects(s)[i]), run[s].semester,
                  get_grade_points(NormGrade(Subjects(s)[i]))))

\* C10: a fault-free run over a non-empty subjects list raises nothing,
\* leaves every row the store held as it was, adds exactly one row for each
\* new valid subject and none for a stored or an incomplete one, and with at
\* least one new valid subject reports completed with subjects_stored their
\* number.
C10_SkipsAreNotErrors ==
    \A s \in Slots :
        (Done(s) /\ faulted[s] = {} /\ Subjects(s) # <<>>)
        => /\ result[s].kind = "returned"
           /\ base[s].grades \subseteq grades
           /\ Cardinality(grades \ base[s].grades) = Cardinality(NewValid(s))
           /\ {Content(g) : g \in grades \ base[s].grades}
                = {ExpectedContent(s, i) : i \in NewValid(s)}
           /\ NewValid(s) # {}
                => /\ ApiStatus(result[s]) = "completed"
                   /\ run[s].upload_record.status = "completed"
                   /\ result[s].subjects_stored = Cardinality(NewValid(s))

\* a run has returned whose payload holds a subject already stored, a
\* subject without code and a new valid subject
C10_Witness ==
    \E s \in Slots :
        /\ Done(s) /\ faulted[s] = {} /\ result[s].kind = "returned"
        /\ \E i, j, k \in 1..Len(Subjects(s)) :
              /\ ValidSubject(Subjects(s)[i])
              /\ InBase(s, CourseCode(Subjects(s)[i]))
              /\ Incomplete(Subjects(s)[j])
              /\ k \in NewValid(s)

ApiStages == <<"preprocess", "extract", "sanitize", "validate", "store">>
ApiUntouched ==
    /\ grades = api.at_start.grades
    /\ uploads = api.at_start.uploads
    /\ next_id = api.at_start.next_id

\* C6: the stages of a request run in the order preprocess, extract,
\* sanitize, validate, store, none skipped or repeated; store is reached only
\* with a payload that has its three keys and a subject; and a request whose
\* extraction raised or whose payload was found invalid (the subjects key
\* missing, say) has not called store_extracted_grades and has left no
\* GradeUpload and no Grade row.
C6_StageOrder ==
    /\ Len(api.stages) <= Len(ApiStages)
    /\ api.stages = SubSeq(ApiStages, 1, Len(api.stages))
    /\ api.pc \in {"store", "storing"}
          => AllKeys \subseteq api.extracted_data.keys /\ api.extracted_data.subjects # <<>>
    /\ (api.pc = "responded" /\ api.caught = "OCRProcessingError")
          => /\ Len(api.stages) \in {2, 3}
             /\ api.response.status_code \in {422, 429, 502, 503}
             /\ ApiUntouched
             /\ run["r1"].upload_record.id < api.at_start.next_id
    /\ (/\ api.pc = "responded"
        /\ Len(api.stages) >= 4
        /\ \/ "subjects" \notin api.extracted_data.keys
           \/ ~validate_extracted_grades(api.extracted_data))
          => /\ api.stages = SubSeq(ApiStages, 1, 4)
             /\ api.response.status = "processing_failed"
             /\ ApiUntouched
             /\ run["r1"].upload_record.id < api.at_start.next_id

\* a request whose extraction lacked the subjects key has been answered,
\* after an earlier request had stored a grade
C6_Witness ==
    /\ api.pc = "responded"
    /\ api.stages = SubSeq(ApiStages, 1, 4)
    /\ "subjects" \notin api.extracted_data.keys
    /\ api.response.status = "processing_failed"
    /\ api.caught = ""
    /\ grades # {}

BadFile(file) ==
    \/ file.content_type \notin ALLOWED_FILE_TYPES
    \/ file.size > MAX_FILE_SIZE

\* C7 as claimed: an upload whose content type is not allowed or whose size
\* exceeds 10 MiB is answered 400 with the 'Invalid file type' or 'File too
\* large' detail, before the preprocessor, the extraction or the store ran.
C7_BadFileIs400 ==
    (api.pc = "responded" /\ BadFile(api.file))
    => /\ api.response.status_code = 400
       /\ api.response.detail \in {"Invalid file type", "File too large"}
       /\ api.stages = <<>>
       /\ ApiUntouched

\* the subjects of a run that the loop has gone through
Processed(s) == 1..(IF run[s].pc \in {"loop", "done"} THEN run[s].idx - 1 ELSE 0)
RowsFor(s, subject_data) ==
    {g \in Range(run[s].added) : g.course_name = CourseName(subject_data)}
EmptyGrade(subject_data) ==
    \/ subject_data.grade.t = "null"
    \/ /\ subject_data.grade.t = "str"
       /\ Upper(Strip(subject_data.grade.s)) \in {<<>>, <<"N", "O", "N", "E">>}

\* C11 as claimed: a subject whose grade is the empty string, whitespace,
\* null, or "NONE" once trimmed and upper-cased gets no Grade row and adds
\* nothing to total_credits and to the weighted sum of the run; every other
\* grade is stored trimmed and upper-cased.
C11_EmptyGradeSkipped ==
    \A i \in Processed("r1") :
        LET subject_data == Subjects("r1")[i]
        IN  /\ EmptyGrade(subject_data)
                => /\ RowsFor("r1", subject_data) = {}
                   /\ (i = 1 /\ run["r1"].idx = 2) => run["r1"].total_credits = 0
            /\ (subject_data.grade.t = "str" /\ ~EmptyGrade(subject_data))
                => \A g \in RowsFor("r1", subject_data) :
                       g.grade = Upper(Strip(subject_data.grade.s))

\* what the claim says of a credits value: the integer itself in 1..6, the
\* default when missing, non-numeric or outside 1..6, and for a numeric string
\* or a fraction within 1..6 no more than a value in 1..6
CreditsAsClaimed(credits) ==
    CASE credits.t = "int" -> IF credits.n \in 1..6 THEN {credits.n} ELSE {DefaultCredits}
      [] credits.t = "float" ->
           IF credits.n < 10 \/ credits.n > 60 THEN {DefaultCredits} ELSE 1..6
      [] credits.t = "str" -> IF IntStrOk(credits.s) THEN 1..6 ELSE {DefaultCredits}
      [] OTHER -> {DefaultCredits}

\* C12 as claimed: in a run without a store failure every subject with code,
\* name and grade that is new gets a Grade row, whatever its credits; the
\* row's credits are the payload's integer when in 1..6 and 3 when the
\* credits are missing, non-numeric or outside 1..6; and the run returns.
C12_CreditsDefaulted ==
    /\ (Done("r1") /\ faulted["r1"] = {} /\ Subjects("r1") # <<>>
           /\ ~SemesterRaises(run["r1"].extracted_data.student_info))
          => result["r1"].kind = "returned"
    /\ faulted["r1"] = {}
          => \A i \in Processed("r1") :
                LET subject_data == Subjects("r1")[i]
                IN  (ValidSubject(subject_data) /\ i \in NewValid("r1"))
                    => /\ Cardinality(RowsFor("r1", subject_data)) = 1
                       /\ \A g \in RowsFor("r1", subject_data) :
                              g.credits \in CreditsAsClaimed(subject_data.credits)

\* what the claim says of a semester value: the integer in 1..12, given as
\* an int or as a string of decimal digits, and 1 otherwise; for a float
\* holding a whole number in 1..12 either reading
SemesterAsClaimed(sem) ==
    CASE sem.t = "int" -> IF sem.n \in 1..12 THEN {sem.n} ELSE {DefaultSemester}
      [] sem.t = "str" ->
           IF IsDecimal(sem.s) /\ DigitsVal(sem.s) \in 1..12
           THEN {DigitsVal(sem.s)} ELSE {DefaultSemester}
      [] sem.t = "float" ->
           IF sem.n % 10 = 0 /\ (sem.n \div 10) \in 1..12
           THEN {DefaultSemester, sem.n \div 10} ELSE {DefaultSemester}
      [] OTHER -> {DefaultSemester}

\* C13 as claimed: whatever student_info.semester holds, a run whose flush
\* succeeded and whose payload has subjects enters the loop with one semester
\* resolved, the given integer in 1..12 and 1 otherwise, gives that semester
\* to every Grade row it adds, and does not raise unless a store operation
\* failed.
C13_SemesterResolved ==
    LET r == run["r1"]
    IN  (/\ r.pc \in {"loop", "done"}
         /\ "flush" \notin faulted["r1"]
         /\ Subjects("r1") # <<>>
         /\ r.extracted_data.student_info.t = "dict")
        => /\ r.semester \in SemesterAsClaimed(r.extracted_data.student_info.semester)
           /\ \A g \in Range(r.added) : g.semester = r.semester
           /\ (r.pc = "done" /\ faulted["r1"] = {}) => result["r1"].kind = "returned"

\* the table as the claim gives it
PointsAsClaimed(letter) ==
    CASE letter = <<"O">> -> 10
      [] letter = <<"A", "+">> -> 9
      [] letter = <<"A">> -> 8
      [] letter = <<"B", "+">> -> 7
      [] letter = <<"B">> -> 6
      [] letter = <<"C">> -> 5
      [] letter = <<"D">> -> 4
      [] OTHER -> 0

AnaRows == {g \in grades : g.user_id = ana.user_id}
\* v, in hundredths, is num / den rounded to 2 decimals
IsRounded(v, num, den) == 2 * Abs(100 * num - v * den) <= den

\* C15: the cgpa calculate_user_cgpa returns is the sum of grade points times
\* credits over all the user's rows divided by the sum of their credits,
\* rounded to 2 decimals, and 0.0 when the credit sum is 0; it is not the
\* mean of the semesters' SGPAs.
C15_WeightedMean ==
    (ana.op = "cgpa" /\ ana.kind = "returned")
    => /\ ana.cgpa_data.total_credits = SumCredits(AnaRows)
       /\ SumCredits(AnaRows) = 0 => ana.cgpa_data.cgpa = 0
       /\ SumCredits(AnaRows) > 0
            => IsRounded(ana.cgpa_data.cgpa, SumWeighted(AnaRows), SumCredits(AnaRows))

\* semesters of 10 credits / 85 points and 8 credits / 64 points: the cgpa
\* returned is 8.28 while the SGPAs are 8.50 and 8.00
C15_Witness ==
    /\ ana.op = "cgpa" /\ ana.kind = "returned"
    /\ Len(ana.cgpa_data.semester_breakdown) = 2
    /\ ana.cgpa_data.semester_breakdown[1].total_credits = 10
    /\ ana.cgpa_data.semester_breakdown[1].sgpa = 850
    /\ ana.cgpa_data.semester_breakdown[2].total_credits = 8
    /\ ana.cgpa_data.semester_breakdown[2].sgpa = 800
    /\ SumWeighted(AnaRows) = 149
    /\ ana.cgpa_data.cgpa = 828

\* C16: the semester breakdown of calculate_user_cgpa has one entry per
\* distinct semester of the user's rows, in strictly ascending semester
\* order; every row of the user is in exactly one entry, that of its
\* semester; each entry counts its rows, sums their credits and has as sgpa
\* their credit-weighted mean (0.0 on zero credits); and total_subjects,
\* total_credits and semesters_completed are the sums over the entries and
\* their number.
C16_Breakdown ==
    (ana.op = "cgpa" /\ ana.kind = "returned")
    => LET data == ana.cgpa_data
           entries == data.semester_breakdown
           Rows(i) == DOMAIN entries[i].subjects
       IN  /\ Len(entries) = Cardinality({g.semester : g \in AnaRows})
           /\ data.semesters_completed = Len(entries)
           /\ \A i, j \in 1..Len(entries) :
                  i < j => entries[i].semester < entries[j].semester
           /\ \A g \in AnaRows :
                  Cardinality({i \in 1..Len(entries) : g \in Rows(i)}) = 1
           /\ \A i \in 1..Len(entries) :
                  /\ Rows(i) = {g \in AnaRows : g.semester = entries[i].semester}
                  /\ \A g \in Rows(i) : entries[i].subjects[g] = StoredGrade(g)
                  /\ entries[i].subjects_count = Cardinality(Rows(i))
                  /\ entries[i].total_credits = SumCredits(Rows(i))
                  /\ SumCredits(Rows(i)) = 0 => entries[i].sgpa = 0
                  /\ SumCredits(Rows(i)) > 0
                       => IsRounded(entries[i].sgpa, SumWeighted(Rows(i)), SumCredits(Rows(i)))
           /\ data.total_subjects
                = SeqSum([i \in 1..Len(entries) |-> entries[i].subjects_count])
           /\ data.total_credits
                = SeqSum([i \in 1..Len(entries) |-> entries[i].total_credits])

\* a breakdown of two semesters for a user whose rows of the later semester
\* were stored first, while the other user has rows too
C16_Witness ==
    /\ ana.op = "cgpa" /\ ana.kind = "returned"
    /\ Len(ana.cgpa_data.semester_breakdown) = 2
    /\ \E g, h \in AnaRows : g.id[1] < h.id[1] /\ g.semester > h.semester
    /\ ana.cgpa_data.total_subjects = 5

\* C17: for a user without Grade rows calculate_user_cgpa returns zero
\* counters, cgpa 0.0 and an empty breakdown; get_semester_summary returns
\* None exactly when the user has no row in the semester asked for; and
\* neither raises unless its query failed.
C17_AbsenceIsAValue ==
    /\ (ana.op # "none" /\ ~ana.query_failed) => ana.kind = "returned"
    /\ (ana.op = "cgpa" /\ ana.kind = "returned" /\ AnaRows = {})
          => ana.cgpa_data =
                [user_id |-> ana.user_id, total_subjects |-> 0, total_credits |-> 0,
                 cgpa |-> 0, semesters_completed |-> 0, semester_breakdown |-> <<>>]
    /\ (ana.op = "semester" /\ ana.kind = "returned")
          => (~ana.semester_data.present
                <=> ~\E g \in AnaRows : g.semester = ana.semester)

\* None was returned for a semester in which the user has no row, while the
\* user has rows in another semester
C17_Witness ==
    /\ ana.op = "semester" /\ ana.kind = "returned"
    /\ ~ana.semester_data.present
    /\ AnaRows # {}

\* C18: an analytics request leaves the store as it found it: when
\* calculate_user_cgpa or get_semester_summary has returned a summary,
\* returned None or raised, the Grade and GradeUpload rows are those the
\* store held when the request came in, field for field.
C18_ReadsLeaveStore ==
    ana.op # "none"
    => /\ grades = base["r1"].grades
       /\ uploads = base["r1"].uploads

\* an analytics request has raised over a store that holds rows of the user
C18_Witness ==
    /\ ana.op = "semester" /\ ana.kind = "raised"
    /\ AnaRows # {}
    /\ uploads # {}

\* the rows a delete request matches in the store
MatchedGrades(d) ==
    CASE d.op = "reset" -> {g \in grades : g.user_id = d.user_id}
      [] d.op = "semester" ->
           {g \in grades : g.user_id = d.user_id /\ g.semester = d.semester}
      [] OTHER -> {}
MatchedUploads(d) ==
    CASE d.op = "reset" -> {u \in uploads : u.user_id = d.user_id}
      [] d.op = "upload" -> {u \in uploads : u.id = d.upload_id /\ u.user_id = d.user_id}
      [] OTHER -> {}
\* slot s answers a delete request in this step
DeleteAnswered(s) ==
    /\ del_result'[s] # del_result[s]
    /\ del_result'[s].op # "none"
    /\ del_result'[s].status # "counted"

\* C19 as claimed: a delete that finds no matching row, be it the repetition
\* of one that succeeded or not, and whose store operations do not fail,
\* leaves the store as it is and answers its caller with zero rows removed,
\* not with an error.
C19_DeleteIdempotent ==
    [][\A s \in Slots :
          (/\ DeleteAnswered(s)
           /\ del_result'[s].status # "error"
           /\ MatchedGrades(del_result'[s]) = {}
           /\ MatchedUploads(del_result'[s]) = {})
          => /\ UNCHANGED store
             /\ del_result'[s].deleted_grades = 0
             /\ del_result'[s].deleted_uploads = 0
             /\ del_result'[s].status_code = 200]_vars

\* C20 as claimed: a delete removes exactly the rows its selector matches
\* and reports how many they are: delete-all every Grade and GradeUpload row
\* of the owner, delete-by-semester the owner's Grade rows of the semester
\* and no GradeUpload row, delete-by-upload-id that GradeUpload row of the
\* owner and no Grade row; a delete that fails removes nothing.
C20_DeleteExact ==
    [][\A s \in Slots :
          DeleteAnswered(s)
          => IF del_result'[s].status = "error"
             THEN UNCHANGED store
             ELSE /\ grades' = grades \ MatchedGrades(del_result'[s])
                  /\ uploads' = uploads \ MatchedUploads(del_result'[s])
                  /\ del_result'[s].deleted_grades
                       = Cardinality(MatchedGrades(del_result'[s]))
                  /\ del_result'[s].deleted_uploads
                       = Cardinality(MatchedUploads(del_result'[s]))]_vars

\* C21: a committed Grade row keeps the fields it was created with through
\* every ingestion run, the one that ingests its course and semester again
\* with another name, credits or letter grade included, and every analytics
\* read: in each step a stored row stays in the store as it is, or a delete
\* that matches it is answered and no row of its id remains; no two rows
\* share an id.
C21_GradeImmutable ==
    [][/\ \A g \in grades :
              \/ g \in grades'
              \/ /\ ~\E h \in grades' : h.id = g.id
                 /\ \E s \in Slots :
                        DeleteAnswered(s) /\ g \in MatchedGrades(del_result'[s])
       /\ \A g, h \in grades' : g.id = h.id => g = h]_vars

\* the course of a stored row has been ingested again, for the same user and
\* semester, with another name, credits and letter grade, and the run has
\* returned
C21_Witness ==
    /\ Done("r1") /\ result["r1"].kind = "returned"
    /\ \E g \in base["r1"].grades \cap grades :
          \E i \in 1..Len(Subjects("r1")) :
              /\ ~SubjectSkipped(Subjects("r1")[i])
              /\ g.user_id = run["r1"].user_id
              /\ g.semester = run["r1"].semester
              /\ g.course_code = CourseCode(Subjects("r1")[i])
              /\ g.course_name # CourseName(Subjects("r1")[i])
              /\ g.credits # NormCredits(Subjects("r1")[i])
              /\ g.grade # NormGrade(Subjects("r1")[i])

Last(calls) == calls[Len(calls)]
Closes(calls) == Cardinality({i \in 1..Len(calls) : calls[i] = "close"})

\* C22: on every exit path of a request - the handler returned, raised an
\* HTTPException of its own or for the exception of a stage, or the final
\* commit failed - the session is closed exactly once, as the last call made
\* on it and right after a commit (the handler returned and the commit did
\* not fail) or a rollback (every other path); and a request whose session
\* was yielded always gets there.
C22_SessionReleased ==
    /\ [](api.db.pc = "exited"
            => LET calls == api.db.calls
               IN  /\ Len(calls) >= 2
                   /\ Last(calls) = "close"
                   /\ Closes(calls) = 1
                   /\ calls[Len(calls) - 1] \in {"commit", "rollback"}
                   /\ HandlerRaised => calls[Len(calls) - 1] = "rollback"
                   /\ ~HandlerRaised
                        => \/ calls[Len(calls) - 1] = "commit"
                           \/ /\ Len(calls) >= 3
                              /\ calls[Len(calls) - 2] = "commit_failed")
    /\ [](api.db.pc = "yielded" => Closes(api.db.calls) = 0)
    /\ (api.db.pc = "yielded") ~> (api.db.pc = "exited")

\* the session of a request whose store_extracted_grades raised on its commit
\* has been released, after a request that stored a grade
C22_Witness ==
    /\ api.db.pc = "exited"
    /\ api.caught = "DatabaseError"
    /\ api.db.calls = <<"commit_failed", "rollback", "rollback", "close">>
    /\ grades # {}

\* the answer the claim gives each kind of typed error
CategoryAsClaimed(error) ==
    CASE error = "rate_limit" -> 429
      [] error = "authentication" -> 503
      [] error = "bad_json" -> 422
      [] error \in {"unavailable", "no_key", "network", "unexpected"} -> 502
      [] error = "duplicate_data" -> 409
      [] error = "invalid_grade_data" -> 422
      [] OTHER -> 500

\* C23 as claimed: an OCRProcessingError or a DatabaseError that reaches
\* process_result_card is answered with the category of its kind - rate limit
\* 429, parse failure 422, configuration 503, another AI failure 502,
\* duplicate data 409, invalid grade data 422, another storage failure 500 -
\* and the detail of the answer holds no text of the exception underneath.
C23_TypedErrorsMapped ==
    (api.pc = "responded" /\ api.caught \in {"OCRProcessingError", "DatabaseError"})
    => /\ api.response.status_code = CategoryAsClaimed(api.error)
       /\ api.response.inner = ""

\* C24: every Grade row that store_extracted_grades stages or commits, for
\* any payload, has credits in 1..6, semester in 1..12 and grade points in
\* 0..10; so the rows of a user in a semester, when there are any, have a
\* credit sum above 0 and get_semester_summary reports one.
C24_FieldRanges ==
    /\ \A g \in grades \cup Range(run["r1"].added) :
          /\ g.credits \in 1..6
          /\ g.semester \in 1..12
          /\ g.gpa_points \in 0..10
    /\ \A g \in grades :
          LET summary == get_semester_summary(grades, g.user_id, g.semester)
          IN  /\ SumCredits({h \in grades : h.user_id = g.user_id /\ h.semester = g.semester}) > 0
              /\ summary.present
              /\ summary.total_credits > 0

\* a run whose first subject gives 0 credits has committed it with 3 credits
C24_Witness ==
    /\ Done("r1") /\ result["r1"].kind = "returned"
    /\ Subjects("r1")[1].credits = JInt(0)
    /\ \E g \in grades : g.course_name = CourseName(Subjects("r1")[1]) /\ g.credits = 3

\* the valid subjects of the payload, one for each course code
DistinctValid(s) ==
    {i \in 1..Len(Subjects(s)) :
        /\ ValidSubject(Subjects(s)[i])
        /\ \A j \in 1..(i - 1) :
              ~ValidSubject(Subjects(s)[j])
              \/ CourseCode(Subjects(s)[j]) # CourseCode(Subjects(s)[i])}
\* the run of s ingests again a payload whose rows the delete served just
\* before it removed
Reingests(s) ==
    /\ DistinctValid(s) # {}
    /\ {ExpectedContent(s, i) : i \in DistinctValid(s)}
          \subseteq {Content(g) : g \in base[s].removed}

\* C25: after a delete by semester or a reset has removed the grades a
\* payload produced, a run without a store failure that ingests the payload
\* again for the same user stores every valid subject of it again and reports
\* completed, whatever GradeUpload rows the store still holds.
C25_ReingestAfterDelete ==
    \A s \in Slots :
        (Done(s) /\ faulted[s] = {} /\ Reingests(s))
        => /\ result[s].kind = "returned"
           /\ ApiStatus(result[s]) = "completed"
           /\ run[s].upload_record.status = "completed"
           /\ result[s].subjects_stored = Cardinality(DistinctValid(s))
           /\ {Content(g) : g \in grades \ base[s].grades}
                = {ExpectedContent(s, i) : i \in DistinctValid(s)}
           /\ Cardinality(grades \ base[s].grades) = Cardinality(DistinctValid(s))

\* a payload of two subjects has been ingested again after a delete by
\* semester removed its rows, the GradeUpload of the first ingestion still in
\* the store
C25_Witness ==
    /\ Done("r1") /\ faulted["r1"] = {} /\ Reingests("r1")
    /\ Cardinality(DistinctValid("r1")) = 2
    /\ \E u \in base["r1"].uploads :
          u.user_id = run["r1"].user_id /\ u.status = "completed"
    /\ result["r1"].subjects_stored = 2

\* the text that remains, as the claim has it, once a fence marker at the
\* start (with its json) and one at the end and then a known preamble phrase
\* at the start are removed
WithoutMarkers(text) ==
    LET t0 == Strip(text)
        t1 == IF Len(t0) >= 2 /\ t0[1] = Fence /\ t0[2] = "json" THEN SubSeq(t0, 3, Len(t0))
              ELSE IF t0 # <<>> /\ t0[1] = Fence THEN Tail(t0)
              ELSE t0
        t2 == Strip(IF t1 # <<>> /\ t1[Len(t1)] = Fence THEN SubSeq(t1, 1, Len(t1) - 1) ELSE t1)
    IN  IF t2 # <<>> /\ t2[1] \in Range(prefixes_to_remove) THEN Strip(Tail(t2)) ELSE t2
HasObject(text) ==
    \E i, j \in 1..Len(text) : i < j /\ text[i] = "{" /\ text[j] = "}"

\* C26 as claimed: for a text in which a { comes before a later },
\* clean_ai_response returns the part from the first { to the last } of what
\* remains once the fence markers at the two ends and a known preamble phrase
\* are removed; a text that starts with { and ends with } is returned as it
\* is; and cleaning the result again changes nothing.
C26_CleanExtractsObject ==
    api.pc = "cleaned"
    => LET text == api.response_text
           rest == WithoutMarkers(text)
       IN  /\ (HasObject(text) /\ HasObject(rest))
                => api.cleaned = SubSeq(rest, Find(rest, "{", 1), RFind(rest, "}"))
           /\ (Len(text) >= 2 /\ text[1] = "{" /\ text[Len(text)] = "}")
                => api.cleaned = text
           /\ clean_ai_response(api.cleaned) = api.cleaned

\* C27: every committed GradeUpload has status completed or all_duplicates;
\* the row a commit adds is completed exactly when that commit adds at least
\* one Grade row; and the GradeUpload of a run that raised is not in the
\* store.
C27_UploadStatusFinal ==
    [][/\ \A u \in uploads' : u.status \in {"completed", "all_duplicates"}
       /\ \A u \in uploads' \ uploads :
              (u.status = "completed") <=> (grades' \ grades # {})
       /\ \A s \in Slots :
              (run'[s].pc = "done" /\ result'[s].kind = "raised")
              => \A u \in uploads' : u.id # run'[s].upload_record.id]_vars

\* a run has committed a GradeUpload and no Grade, and the next run raised at
\* its commit after it had staged a Grade
C27_Witness ==
    /\ \E u \in uploads : u.status = "all_duplicates"
    /\ run["r1"].pc = "done" /\ result["r1"].kind = "raised"
    /\ "commit" \in faulted["r1"]
    /\ run["r1"].stored_grades # <<>>
    /\ \A u \in uploads : u.id # run["r1"].upload_record.id

\* the user for whom the request served in slot s is performed
Owner(s) ==
    IF del_result[s].op # "none" THEN del_result[s].user_id
    ELSE IF ana.op # "none" THEN ana.user_id
    ELSE run[s].user_id
GradesOf(G, user_id) == {g \in G : g.user_id = user_id}
UploadsOf(U, user_id) == {u \in U : u.user_id = user_id}

\* C28: a step of a request performed for one user leaves the Grade and
\* GradeUpload rows of every other user as they were; a run that returns has
\* stored every valid subject whose course and semester were not stored for
\* its own user, whoever else holds them; and what calculate_user_cgpa and
\* get_semester_summary return for a user is determined by the rows of that
\* user alone.
C28_OwnerIsolation ==
    /\ [][\A b \in LifeUsers \ {Owner("r1")'} :
              /\ GradesOf(grades', b) = GradesOf(grades, b)
              /\ UploadsOf(uploads', b) = UploadsOf(uploads, b)]_vars
    /\ [](\A s \in Slots :
              (Done(s) /\ result[s].kind = "returned")
              => \A i \in DistinctValid(s) :
                    (~\E g \in GradesOf(base[s].grades, run[s].user_id) :
                          /\ g.course_code = CourseCode(Subjects(s)[i])
                          /\ g.semester = run[s].semester)
                    => \E g \in GradesOf(grades \ base[s].grades, run[s].user_id) :
                          /\ g.course_code = CourseCode(Subjects(s)[i])
                          /\ g.semester = run[s].semester)
    /\ []((ana.kind = "returned" /\ ana.op = "cgpa")
              => ana.cgpa_data
                   = calculate_user_cgpa(GradesOf(grades, ana.user_id), ana.user_id))
    /\ []((ana.kind = "returned" /\ ana.op = "semester")
              => ana.semester_data
                   = get_semester_summary(GradesOf(grades, ana.user_id), ana.user_id,
                                          ana.semester))

\* a delete by semester for one user has removed rows of a course and
\* semester that the other user holds as well and still holds
C28_Witness ==
    /\ del_result["r1"].op = "semester" /\ del_result["r1"].status = "success"
    /\ \E h \in base["r1"].removed, g \in grades :
          /\ h.user_id = del_result["r1"].user_id
          /\ g.user_id # h.user_id
          /\ g.course_code = h.course_code /\ g.semester = h.semester

\* the commit of the run of s: it returns, having stored at least one grade
Completes(s) ==
    /\ run[s].pc = "loop" /\ run'[s].pc = "done"
    /\ result'[s].kind = "returned"
    /\ result'[s].status # "all_duplicates"
SemesterRows(G, s) ==
    {g \in G : g.user_id = run[s].user_id /\ g.semester = run[s].semester}
\* what the run returned and what get_semester_summary returns for its user
\* and semester right after its commit are the same
SummaryAgrees(s) ==
    LET summary == get_semester_summary(grades', run[s].user_id, run[s].semester)
    IN  /\ summary.present
        /\ result'[s].calculated_sgpa = summary.sgpa
        /\ result'[s].total_credits = summary.total_credits
        /\ result'[s].subjects_stored = summary.subjects_count

\* C29 as claimed: when the user had no Grade row of the resolved semester
\* before the run and the run completes, the calculated_sgpa, total_credits
\* and subjects_stored it returns are the sgpa, total_credits and
\* subjects_count of get_semester_summary right after the commit.
C29_IngestionMatchesSummary ==
    [][\A s \in Slots :
          (Completes(s) /\ SemesterRows(base[s].grades, s) = {}) => SummaryAgrees(s)]_vars

\* C29 amended: when the user had no Grade row of the resolved semester
\* before the run, no other request has committed one by the time the run
\* commits, and the run completes, what it returns agrees with
\* get_semester_summary right after the commit.
C29_IngestionMatchesSummaryAlone ==
    [][\A s \in Slots :
          (/\ Completes(s)
           /\ SemesterRows(base[s].grades, s) = {}
           /\ SemesterRows(grades, s) = {}) => SummaryAgrees(s)]_vars

\* a run that found no row of its semester has committed two grades of 7
\* credits and 64 weighted points while another run was in its loop, and
\* the summary of the semester gives the 9.14 it returned
C29_Witness ==
    /\ Done("r1") /\ result["r1"].kind = "returned"
    /\ run["r2"].pc = "loop"
    /\ SemesterRows(base["r1"].grades, "r1") = {}
    /\ grades = Range(run["r1"].added)
    /\ result["r1"].subjects_stored = 2
    /\ result["r1"].total_credits = 7
    /\ result["r1"].calculated_sgpa = 914
    /\ get_semester_summary(grades, run["r1"].user_id, run["r1"].semester).sgpa = 914

\* C30 as claimed: a payload that validate_extracted_grades accepts is taken
\* by store_extracted_grades to a commit, with status completed or
\* all_duplicates, whenever no operation of the store failed.
C30_AcceptedPayloadCommits ==
    (/\ api.pc \in {"storing", "responded"}
     /\ Done("r1")
     /\ validate_extracted_grades(run["r1"].extracted_data)
     /\ faulted["r1"] = {})
    => /\ result["r1"].kind = "returned"
       /\ \E u \in uploads :
             /\ u.id = run["r1"].upload_record.id
             /\ u.status \in {"completed", "all_duplicates"}

====
